---- MODULE Spec2Model ----
(***************************************************************************)
(* Model of lspoints-toolkit.                                               *)
(*                                                                         *)
(* The markdown flattening renderer (markdown.ts: Renderer, parseMarkdown): *)
(* a string is a sequence of characters; a character is a one-element      *)
(* TLA+ string, and ByteWidth gives the number of bytes of its UTF-8        *)
(* encoding.  The text buffer of a Renderer is a sequence of such strings.  *)
(*                                                                         *)
(* The editor side (highlight.ts, textprop.ts, popup.ts): the functions of  *)
(* the toolkit together with the state of the host editor they act on.      *)
(* Each part has its own specification; the variables of the other parts    *)
(* stay at their idle values.                                               *)
(***************************************************************************)
EXTENDS Integers, Sequences, FiniteSets, TLC

VARIABLES
  markdown,   \* parseMarkdown's argument, as far as the lexer has consumed it
  tokens,     \* the top-level tokens marked.lexer returned and forEach has visited
  text,       \* the top-level Renderer's this.text
  attrs,      \* the top-level Renderer's this.attrs
  pc,         \* "render" | "done" | "failed": where parseMarkdown is ("idle": not called)
  caught,     \* the exception caught at parseMarkdown's catch (NoErr when none)
  result,     \* what parseMarkdown returned, or the error it threw
  host,       \* denops.meta.host: "vim" | "nvim" ("none": no editor in this part)
  hlGroups,   \* the editor's highlight groups, by name
  context,    \* denops.context[cacheKey]: <<>> when undefined, else <<record>>
  propTypes,  \* the editor's prop types (Vim) or namespaces (Neovim), by name
  props,      \* the highlights and virtual texts placed in the buffer
  pending,    \* editor commands sent and not awaited, oldest first
  tpCall,     \* the last textprop call and how its promise settled
  unhandled,  \* rejections of promises nobody awaits
  popups,     \* the preview popups, by id
  autocmds,   \* the autocmds of group lspoints.internal.previewpopup
  inflight,   \* notifications of lambdas on their way to the plugin, oldest first
  invoked,    \* the close callbacks invoked so far, by popup
  buffer,     \* the buffer of bufnr: <<>> when there is none, else <<lines>>
  ranges,     \* the LSP ranges given to toVimRanges
  cvCall      \* the toVimRanges called, the positions it sent, what it returned

mdVars == <<markdown, tokens, text, attrs, pc, caught, result>>

hlVars == <<hlGroups>>

tpVars == <<context, propTypes, props, pending, tpCall, unhandled>>

popVars == <<popups, autocmds, inflight, invoked>>

editorVars == <<host, hlVars, tpVars, popVars>>

cvVars == <<buffer, ranges, cvCall>>

vars == <<mdVars, editorVars, cvVars>>

\* no conversion asked for
IdleConvert == buffer = <<>> /\ ranges = <<>> /\ cvCall = <<>>

\* the editor side while parseMarkdown is looked at
IdleEditor ==
  /\ host = "none"
  /\ hlGroups = <<>>
  /\ context = <<>> /\ propTypes = <<>> /\ props = {}
  /\ pending = <<>> /\ tpCall = <<>> /\ unhandled = {}
  /\ popups = <<>> /\ autocmds = {} /\ inflight = <<>> /\ invoked = <<>>

\* parseMarkdown while the editor side is looked at
IdleMarkdown ==
  /\ markdown = <<>> /\ tokens = <<>> /\ text = <<>> /\ attrs = <<>>
  /\ pc = "idle"
  /\ caught = <<>> /\ result = <<>>

----------------------------------------------------------------------------
(* Characters and strings                                                   *)

NL == "\n"
BULLET == "BULLET"       \* U+2022, a 3-byte character of sample text
EACUTE == "EACUTE"       \* U+00E9, a 2-byte character of sample text
ACIRC == "ACIRC"         \* U+00E2, first character of the list label: 2 bytes
EURO == "EURO"           \* U+20AC, second character of the list label: 3 bytes
CENT == "CENT"           \* U+00A2, third character of the list label: 2 bytes
BACKTICK == "BACKTICK"   \* U+0060, the codespan delimiter

\* new TextEncoder().encode(c).length for one character
ByteWidth(c) ==
  CASE c \in {BULLET, EURO} -> 3
    [] c \in {EACUTE, ACIRC, CENT} -> 2
    [] OTHER -> 1

\* strBytes: the UTF-8 byte count of a string
RECURSIVE strBytes(_)
strBytes(s) ==
  IF s = <<>> THEN 0 ELSE ByteWidth(Head(s)) + strBytes(Tail(s))

\* \s of a JavaScript regular expression, over the characters of the model
IsSpaceChar(c) == c \in {" ", NL, "\t"}

\* /^\s*$/.test(v)
IsBlankLine(v) == \A i \in 1..Len(v) : IsSpaceChar(v[i])

HasPrefix(s, p) == Len(s) >= Len(p) /\ SubSeq(s, 1, Len(p)) = p

\* the entities @std/html's unescape replaces by default
Entities ==
  { [from |-> <<"&", "l", "t", ";">>, to |-> "<"],
    [from |-> <<"&", "g", "t", ";">>, to |-> ">"],
    [from |-> <<"&", "a", "m", "p", ";">>, to |-> "&"],
    [from |-> <<"&", "q", "u", "o", "t", ";">>, to |-> "\""],
    [from |-> <<"&", "#", "3", "9", ";">>, to |-> "'"],
    \* of the decimal references it replaces as well: the one of the newline
    [from |-> <<"&", "#", "1", "0", ";">>, to |-> NL] }

\* unescape(text): one left-to-right pass, each entity replaced once
RECURSIVE unescape(_)
unescape(s) ==
  IF s = <<>> THEN <<>>
  ELSE LET hit == { e \in Entities : HasPrefix(s, e.from) } IN
       IF hit # {}
       THEN LET e == CHOOSE x \in hit : TRUE IN
            <<e.to>> \o unescape(SubSeq(s, Len(e.from) + 1, Len(s)))
       ELSE <<Head(s)>> \o unescape(Tail(s))

\* text.split(/\n/): always at least one segment
RECURSIVE split(_)
split(s) ==
  IF \A i \in 1..Len(s) : s[i] # NL THEN <<s>>
  ELSE LET k == CHOOSE i \in 1..Len(s) :
                  s[i] = NL /\ \A j \in 1..(i - 1) : s[j] # NL IN
       <<SubSeq(s, 1, k - 1)>> \o split(SubSeq(s, k + 1, Len(s)))

\* raw.replace(/\n$/, ""): one newline at the very end is removed
stripTrailingNewline(raw) ==
  IF raw # <<>> /\ raw[Len(raw)] = NL THEN SubSeq(raw, 1, Len(raw) - 1) ELSE raw

\* text.replace(/(?<=\n)\s+/g, ""): whitespace right after a newline is removed
RECURSIVE dropLeadingSpace(_)
dropLeadingSpace(s) ==
  IF s # <<>> /\ IsSpaceChar(Head(s)) THEN dropLeadingSpace(Tail(s)) ELSE s

RECURSIVE stripAfterNewline(_)
stripAfterNewline(s) ==
  IF s = <<>> THEN <<>>
  ELSE IF Head(s) = NL THEN <<NL>> \o stripAfterNewline(dropLeadingSpace(Tail(s)))
  ELSE <<Head(s)>> \o stripAfterNewline(Tail(s))

\* " ".repeat(n), "#".repeat(n)
repeat(c, n) == [i \in 1..n |-> c]

\* n.toString() for n >= 0
Digit(d) == CASE d = 0 -> "0" [] d = 1 -> "1" [] d = 2 -> "2" [] d = 3 -> "3"
              [] d = 4 -> "4" [] d = 5 -> "5" [] d = 6 -> "6" [] d = 7 -> "7"
              [] d = 8 -> "8" [] OTHER -> "9"

RECURSIVE toString(_)
toString(n) ==
  IF n < 10 THEN <<Digit(n)>> ELSE toString(n \div 10) \o <<Digit(n % 10)>>

\* s.padStart(width, " ")
padStart(s, width) ==
  IF Len(s) >= width THEN s ELSE repeat(" ", width - Len(s)) \o s

\* dropLastWhile(lines, pred) of @std/collections, for the two predicates used
RECURSIVE dropLastWhileEmpty(_)
dropLastWhileEmpty(lines) ==
  IF lines # <<>> /\ lines[Len(lines)] = <<>>
  THEN dropLastWhileEmpty(SubSeq(lines, 1, Len(lines) - 1))
  ELSE lines

RECURSIVE dropLastWhileBlank(_)
dropLastWhileBlank(lines) ==
  IF lines # <<>> /\ IsBlankLine(lines[Len(lines)])
  THEN dropLastWhileBlank(SubSeq(lines, 1, Len(lines) - 1))
  ELSE lines

\* hd inside a template literal: undefined prints as the word
UNDEFINED_WORD == <<"u", "n", "d", "e", "f", "i", "n", "e", "d">>

----------------------------------------------------------------------------
(* Errors, positions, attributes                                            *)

NoErr == [name |-> "none", message |-> <<>>]

\* throw new NotImplementedError("Not implemented yet: " + token.type)
NotImplementedError(type) ==
  [name |-> "NotImplementedError", message |-> <<"Not implemented yet: ", type>>]

\* unreachable(toktype) of isMarkedToken's default branch
UnreachableError(type) ==
  [name |-> "UnreachableError", message |-> <<"unreachable: ", type>>]

\* an error thrown by marked.lexer itself
LexerError == [name |-> "LexerError", message |-> <<"marked: ", "lexer failed">>]

Pos(l, c) == [line |-> l, character |-> c]

\* textAttrTypes of markup_text.ts
textAttrTypes ==
  <<"fenced", "title", "horizontalrule", "bold", "strike", "italic", "link",
    "url", "codespan", "codespanDelimiter">>

\* type TextAttrItemSpecial: the fields of the three kinds with a payload of
\* their own
TextAttrItemSpecial ==
  [fenced |-> {"type", "range", "lang"},
   title |-> {"type", "range", "depth"},
   horizontalrule |-> {"type", "line"}]

\* type TextAttrItemGeneral: Exclude<TextAttrTypes, TextAttrItemSpecial["type"]>
TextAttrItemGeneralTypes ==
  { textAttrTypes[i] : i \in 1..Len(textAttrTypes) } \ DOMAIN TextAttrItemSpecial

\* TextAttrItem["type"]
TextAttrItemTypes == DOMAIN TextAttrItemSpecial \cup TextAttrItemGeneralTypes

\* a is a value of type TextAttrItem
IsTextAttrItem(a) ==
  /\ "type" \in DOMAIN a
  /\ \/ /\ a.type \in DOMAIN TextAttrItemSpecial
        /\ DOMAIN a = TextAttrItemSpecial[a.type]
     \/ /\ a.type \in TextAttrItemGeneralTypes
        /\ DOMAIN a = {"type", "range"}

\* transformPosition(attr, delta)
transformPosition(attr, delta) ==
  IF attr.type = "horizontalrule"
  THEN [attr EXCEPT !.line = @ + delta.line]
  ELSE [attr EXCEPT
          !.range = [start |-> Pos(@.start.line + delta.line,
                                   @.start.character + delta.character),
                     end |-> Pos(@.end.line + delta.line,
                                 @.end.character + delta.character)]]

----------------------------------------------------------------------------
(* Tokens of marked: one record shape, the fields a kind does not have left *)
(* at their defaults.  An optional field is <<>> (undefined / null) or      *)
(* <<v>>.                                                                   *)

BaseTok ==
  [type |-> "", raw |-> <<>>, text |-> <<>>, depth |-> 0, lang |-> <<>>,
   href |-> <<>>, title |-> <<>>, ordered |-> FALSE, checked |-> <<>>,
   tokens |-> <<>>, items |-> <<>>]

\* the cases of isMarkedToken's switch
MarkedTokenTypes ==
  {"space", "code", "heading", "table", "hr", "blockquote", "list", "list_item",
   "paragraph", "html", "text", "def", "escape", "image", "link", "strong",
   "em", "codespan", "br", "del"}

\* isMarkedToken(token): FALSE stands for unreachable(toktype) throwing
isMarkedToken(token) == token.type \in MarkedTokenTypes

----------------------------------------------------------------------------
(* class Renderer: a value [text, attrs, err]; err # NoErr is an exception  *)
(* on its way out of the render call.                                       *)

\* new Renderer()
Renderer == [text |-> <<>>, attrs |-> <<>>, err |-> NoErr]

throw(this, e) == [this EXCEPT !.err = e]

\* this.text.push(line)
pushLine(this, line) == [this EXCEPT !.text = Append(@, line)]

\* this.attrs.push(attr)
pushAttr(this, attr) == [this EXCEPT !.attrs = Append(@, attr)]

\* #getEofPosition(exclusive): this.text[-1] of an empty buffer is undefined,
\* which TextEncoder.encode takes as the empty string
getEofPosition(this, exclusive) ==
  Pos(Len(this.text),
      strBytes(IF this.text = <<>> THEN <<>> ELSE this.text[Len(this.text)])
        + 1 + (IF exclusive THEN 1 ELSE 0))

\* every segment pushed as a line of its own
appendAsLines(this, s) ==
  LET after == [this EXCEPT !.text = @ \o split(unescape(s))] IN
  [this |-> after,
   range |-> [start |-> IF this.text = <<>> THEN Pos(1, 1)
                        ELSE getEofPosition(this, FALSE),
              end |-> getEofPosition(after, FALSE)]]

\* #appendText(text): the renderer afterwards and the range returned
appendText(this, s) ==
  LET parts == split(unescape(s))
      top == Head(parts)
      rest == Tail(parts)
  IN IF this.text = <<>>
     THEN LET after == [this EXCEPT !.text = parts] IN
          [this |-> after,
           range |-> [start |-> Pos(1, 1), end |-> getEofPosition(after, FALSE)]]
     ELSE LET start == getEofPosition(this, FALSE)
              n == Len(this.text)
              after == [this EXCEPT !.text = [@ EXCEPT ![n] = @ \o top] \o rest]
          IN [this |-> after,
              range |-> [start |-> start, end |-> getEofPosition(after, FALSE)]]

RECURSIVE renderOne(_, _)
RECURSIVE forEachToken(_, _)
RECURSIVE renderList(_, _)
RECURSIVE render(_)
RECURSIVE renderItemChildren(_, _)
RECURSIVE renderItems(_, _, _)

\* ensure(tok, isMarkedToken), then #renderOne
dispatch(this, tok) ==
  IF isMarkedToken(tok) THEN renderOne(this, tok)
  ELSE throw(this, UnreachableError(tok.type))

\* tokens.forEach((tok) => this.#renderOne(ensure(tok, isMarkedToken)))
forEachToken(this, toks) ==
  IF toks = <<>> \/ this.err # NoErr THEN this
  ELSE forEachToken(dispatch(this, Head(toks)), Tail(toks))

\* #renderList(tokens)
renderList(this, toks) ==
  LET start == getEofPosition(this, FALSE)
      after == forEachToken(this, toks)
  IN [this |-> after,
      range |-> [start |-> start, end |-> getEofPosition(after, FALSE)]]

\* new Renderer().render(tokensList)
render(toks) == renderList(Renderer, toks).this

\* this.attrs.push({ type, range }) for the range an append returned
attach(res, type) == pushAttr(res.this, [type |-> type, range |-> res.range])

\* this.attrs.push({ type: "title", range, depth: 0 })
attachTitle(res) ==
  pushAttr(res.this, [type |-> "title", range |-> res.range, depth |-> 0])

\* this.attrs.push({ type: "fenced", range, lang })
attachFenced(res, lang) ==
  pushAttr(res.this, [type |-> "fenced", range |-> res.range, lang |-> lang])

\* a heading whose title range starts where the children start, after the marker
renderHeadingAfterMarker(this, token) ==
  LET marker == appendText(this, repeat("#", token.depth) \o <<" ">>)
      kids == renderList(marker.this, token.tokens)
  IN IF kids.this.err # NoErr THEN kids.this
     ELSE pushAttr(pushLine(kids.this, <<>>),
                   [type |-> "title",
                    range |-> [start |-> kids.range.start,
                               end |-> kids.range.end],
                    depth |-> token.depth])

\* case "heading"
renderHeading(this, token) ==
  LET marker == appendText(this, repeat("#", token.depth) \o <<" ">>)
      kids == renderList(marker.this, token.tokens)
  IN IF kids.this.err # NoErr THEN kids.this
     ELSE pushAttr(pushLine(kids.this, <<>>),
                   [type |-> "title",
                    range |-> [start |-> marker.range.start,
                               end |-> kids.range.end],
                    depth |-> token.depth])

\* case "paragraph"
renderParagraph(this, token) ==
  LET kids == renderList(this, token.tokens) IN
  IF kids.this.err # NoErr THEN kids.this ELSE pushLine(kids.this, <<>>)

\* case "text"
renderText(this, token) == appendText(this, token.text).this

\* a space token appended as it is, its last newline included
renderSpaceWhole(this, token) == appendText(this, token.raw).this

\* case "space"
renderSpace(this, token) == appendText(this, stripTrailingNewline(token.raw)).this

\* case "br"
renderBr(this, token) == pushLine(this, <<>>)

\* typetable of case "strong" / "del" / "em"
typetable(type) ==
  CASE type = "strong" -> "bold"
    [] type = "del" -> "strike"
    [] type = "em" -> "italic"

\* case "strong", "del", "em"
renderEmphasis(this, token) ==
  LET kids == renderList(this, token.tokens) IN
  IF kids.this.err # NoErr THEN kids.this
  ELSE attach(kids, typetable(token.type))

\* case "link", "image": the label, rendered (link) or appended (image)
linkLabel(this, token) ==
  IF token.type = "link" THEN renderList(this, token.tokens)
  ELSE appendText(this, token.text)

\* if (token.title) { ... }: null and the empty string are falsy
linkTitle(this, token) ==
  IF token.title # <<>> /\ token.title[1] # <<>>
  THEN attachTitle(appendText(appendText(this, <<" ">>).this, token.title[1]))
  ELSE this

\* case "link", "image": from "](" to ")"
linkTail(this, token) ==
  appendText(
    linkTitle(attach(appendText(appendText(this, <<"]", "(">>).this, token.href),
                     "url"),
              token),
    <<")">>).this

\* case "link", "image"
renderLink(this, token) ==
  LET label == linkLabel(
                 appendText(this, IF token.type = "link" THEN <<"[">>
                                  ELSE <<"!", "[">>).this,
                 token)
  IN IF label.this.err # NoErr THEN label.this
     ELSE linkTail(attach(label, "link"), token)

\* case "code": token.lang ?? ""
renderCode(this, token) ==
  pushLine(attachFenced(appendText(this, token.text),
                        IF token.lang = <<>> THEN <<>> ELSE token.lang[1]),
           <<>>)

\* case "codespan"
renderCodespan(this, token) ==
  attach(appendText(attach(appendText(attach(appendText(this, <<BACKTICK>>),
                                             "codespanDelimiter"),
                                      token.text),
                           "codespan"),
                    <<BACKTICK>>),
         "codespanDelimiter")

\* a blockquote whose attributes keep the columns of the sub-render
renderBlockquoteUnshifted(this, token) ==
  LET sub == render(token.tokens) IN
  IF sub.err # NoErr THEN throw(this, sub.err)
  ELSE LET kept == dropLastWhileBlank(sub.text)
           quoted == [i \in 1..Len(kept) |-> <<">", " ">> \o kept[i]]
           delta == Pos(Len(this.text), 0)
           shifted == [i \in 1..Len(sub.attrs) |->
                         transformPosition(sub.attrs[i], delta)]
       IN [this EXCEPT !.text = @ \o quoted \o << <<>> >>,
                       !.attrs = @ \o shifted]

\* case "blockquote"
renderBlockquote(this, token) ==
  LET sub == render(token.tokens) IN
  IF sub.err # NoErr THEN throw(this, sub.err)
  ELSE LET kept == dropLastWhileBlank(sub.text)
           quoted == [i \in 1..Len(kept) |-> <<">", " ">> \o kept[i]]
           delta == Pos(Len(this.text), 2)
           shifted == [i \in 1..Len(sub.attrs) |->
                         transformPosition(sub.attrs[i], delta)]
       IN [this EXCEPT !.text = @ \o quoted \o << <<>> >>,
                       !.attrs = @ \o shifted]

\* a rule reported with an empty range on its line instead of a line number
renderHrAsRange(this, token) ==
  LET pushed == pushLine(this, <<>>)
      at == Pos(Len(pushed.text) - 1, 1)
  IN pushAttr(pushed, [type |-> "horizontalrule",
                       range |-> [start |-> at, end |-> at]])

\* case "hr"
renderHr(this, token) ==
  LET pushed == pushLine(this, <<>>) IN
  pushAttr(pushed, [type |-> "horizontalrule", line |-> Len(pushed.text) - 1])

\* case "table"
renderTable(this, token) == appendText(this, token.raw).this

\* const labelChar: the three characters the source file holds between the
\* quotes (bytes c3 a2, e2 82 ac, c2 a2), 7 bytes in UTF-8
labelChar == <<ACIRC, EURO, CENT>>

\* " [x]".length
CheckboxWidth == 4

\* labelSize of case "list"
labelSize(token) ==
  IF token.ordered THEN Len(toString(Len(token.items))) + 1
  ELSE strBytes(labelChar)

\* checkboxSize of case "list": items.filter((v) => v.checked)
checkboxSize(token) ==
  IF \E i \in 1..Len(token.items) : token.items[i].checked = <<TRUE>>
  THEN CheckboxWidth ELSE 0

\* indentSize of case "list"
indentSize(token) == labelSize(token) + checkboxSize(token) + 1

\* a label without the padding to the width of the longest number
itemLabelUnpadded(token, idx) ==
  IF token.ordered THEN toString(idx + 1) \o <<".">> ELSE labelChar

\* label of the idx-th item (idx counted from 0, as in the code)
itemLabel(token, idx) ==
  IF token.ordered
  THEN padStart(toString(idx + 1), labelSize(token) - 1) \o <<".">>
  ELSE labelChar

\* checkbox of an item
itemCheckbox(token, item) ==
  IF item.checked = <<>> THEN repeat(" ", checkboxSize(token))
  ELSE IF item.checked[1] THEN <<" ", "[", "x", "]">>
  ELSE <<" ", "[", " ", "]">>

\* the delta the list case gives transformPosition for the attrs of an item
itemDelta(this, token) == Pos(0, indentSize(token))

\* the body of token.items.forEach in case "list", for the item of index idx
renderItem(this, token, idx) ==
  LET item == token.items[idx + 1]
      sub == render(<<item>>)
  IN IF sub.err # NoErr THEN throw(this, sub.err)
     ELSE LET hd == IF sub.text = <<>> THEN UNDEFINED_WORD ELSE Head(sub.text)
              tl == IF sub.text = <<>> THEN <<>> ELSE Tail(sub.text)
              first == itemLabel(token, idx) \o itemCheckbox(token, item)
                         \o <<" ">> \o hd
              later == [i \in 1..Len(tl) |->
                          repeat(" ", indentSize(token)) \o tl[i]]
              delta == itemDelta(this, token)
              moved == [i \in 1..Len(sub.attrs) |->
                          transformPosition(sub.attrs[i], delta)]
          IN [this EXCEPT !.text = @ \o <<first>> \o later,
                          !.attrs = @ \o moved]

renderItems(this, token, idx) ==
  IF idx >= Len(token.items) \/ this.err # NoErr THEN this
  ELSE renderItems(renderItem(this, token, idx), token, idx + 1)

\* case "list"
renderListToken(this, token) == renderItems(this, token, 0)

\* the body of token.tokens.forEach in case "list_item"
renderItemChild(this, chTok) ==
  IF chTok.type = "list"
  THEN LET sub == render(<<chTok>>) IN
       IF sub.err # NoErr THEN throw(this, sub.err)
       ELSE LET delta == Pos(Len(this.text), 0)
                transformed == [i \in 1..Len(sub.attrs) |->
                                  transformPosition(sub.attrs[i], delta)]
            IN [this EXCEPT !.text = @ \o sub.text, !.attrs = @ \o transformed]
  ELSE IF chTok.type = "text"
  THEN appendText(this, stripAfterNewline(chTok.text)).this
  ELSE dispatch(this, chTok)

renderItemChildren(this, toks) ==
  IF toks = <<>> \/ this.err # NoErr THEN this
  ELSE renderItemChildren(renderItemChild(this, Head(toks)), Tail(toks))

\* case "list_item"
renderListItem(this, token) == renderItemChildren(this, token.tokens)

\* case "html", "def", "escape"
renderUnsupported(this, token) == throw(this, NotImplementedError(token.type))

\* #renderOne(token): the switch
renderOne(this, token) ==
  CASE token.type = "heading" -> renderHeading(this, token)
    [] token.type = "paragraph" -> renderParagraph(this, token)
    [] token.type = "text" -> renderText(this, token)
    [] token.type = "space" -> renderSpace(this, token)
    [] token.type = "br" -> renderBr(this, token)
    [] token.type \in {"strong", "del", "em"} -> renderEmphasis(this, token)
    [] token.type \in {"link", "image"} -> renderLink(this, token)
    [] token.type = "code" -> renderCode(this, token)
    [] token.type = "codespan" -> renderCodespan(this, token)
    [] token.type = "blockquote" -> renderBlockquote(this, token)
    [] token.type = "hr" -> renderHr(this, token)
    [] token.type = "table" -> renderTable(this, token)
    [] token.type = "list" -> renderListToken(this, token)
    [] token.type = "list_item" -> renderListItem(this, token)
    [] token.type \in {"html", "def", "escape"} -> renderUnsupported(this, token)

----------------------------------------------------------------------------
(* Token trees marked.lexer returns: the inputs of the model                *)

TextTok(s) == [BaseTok EXCEPT !.type = "text", !.raw = s, !.text = s]

Inline(type, kids) == [BaseTok EXCEPT !.type = type, !.tokens = kids]

Block(type, raw, kids) ==
  [BaseTok EXCEPT !.type = type, !.raw = raw, !.tokens = kids]

Item(kids) == [BaseTok EXCEPT !.type = "list_item", !.tokens = kids]

\* the text token of a tight list item: its text is the source, markup included
ItemText(s, kids) ==
  [BaseTok EXCEPT !.type = "text", !.raw = s, !.text = s, !.tokens = kids]

ListTok(raw, ordered, items) ==
  [BaseTok EXCEPT !.type = "list", !.raw = raw, !.ordered = ordered,
                  !.items = items]

CodeTok(raw, lang, body) ==
  [BaseTok EXCEPT !.type = "code", !.raw = raw, !.lang = lang, !.text = body]

SpaceTok(raw) == [BaseTok EXCEPT !.type = "space", !.raw = raw]

\* "a\n&": marked escapes the text of a text token, so "&" arrives as "&amp;"
ParaPlain ==
  Block("paragraph", <<"a", NL, "&">>,
        <<[BaseTok EXCEPT !.type = "text", !.raw = <<"a", NL, "&">>,
                          !.text = <<"a", NL, "&", "a", "m", "p", ";">>]>>)

\* "*b*": a paragraph that starts with emphasis
ParaEmFirst ==
  Block("paragraph", <<"*", "b", "*">>, <<Inline("em", <<TextTok(<<"b">>)>>)>>)

\* "a**b**~~c~~"
ParaMixed ==
  Block("paragraph", <<"a", "*", "*", "b", "*", "*", "~", "~", "c", "~", "~">>,
        <<TextTok(<<"a">>), Inline("strong", <<TextTok(<<"b">>)>>),
          Inline("del", <<TextTok(<<"c">>)>>)>>)

\* "## h *i*"
HeadingTok ==
  [Block("heading", <<"#", "#", " ", "h", " ", "*", "i", "*">>,
         <<TextTok(<<"h", " ">>), Inline("em", <<TextTok(<<"i">>)>>)>>)
     EXCEPT !.depth = 2]

Space2 == SpaceTok(<<NL, NL>>)
Space3 == SpaceTok(<<NL, NL, NL>>)
\* a blank line that holds a space
SpaceWs == SpaceTok(<<NL, " ", NL>>)

\* a fenced block with a language tag, and one without
CodeLang ==
  CodeTok(<<BACKTICK, BACKTICK, BACKTICK, "t", "s", NL, "x", NL,
            BACKTICK, BACKTICK, BACKTICK>>, << <<"t", "s">> >>, <<"x">>)
CodeNoLang ==
  CodeTok(<<BACKTICK, BACKTICK, BACKTICK, NL, "x", NL, "y", NL,
            BACKTICK, BACKTICK, BACKTICK>>, <<>>, <<"x", NL, "y">>)

\* "> q *r*"
QuoteTok ==
  Block("blockquote", <<">", " ", "q", " ", "*", "r", "*">>,
        <<Block("paragraph", <<"q", " ", "*", "r", "*">>,
                <<TextTok(<<"q", " ">>), Inline("em", <<TextTok(<<"r">>)>>)>>)>>)

HtmlTok == Block("html", <<"<", "b", ">">>, <<>>)

DefTok == Block("def", <<"[", "a", "]", ":", " ", "b">>, <<>>)

\* "> <b>"
QuoteHtml == Block("blockquote", <<">", " ", "<", "b", ">">>, <<HtmlTok>>)

\* a paragraph holding a backslash escape
ParaEscape ==
  Block("paragraph", <<"\\", "*">>,
        <<[BaseTok EXCEPT !.type = "escape", !.raw = <<"\\", "*">>,
                          !.text = <<"*">>]>>)

HrTok == Block("hr", <<"*", "*", "*">>, <<>>)

\* "- a *b*\n- c": a tight list
ListTight ==
  ListTok(<<"-", " ", "a", " ", "*", "b", "*", NL, "-", " ", "c">>, FALSE,
          <<Item(<<ItemText(<<"a", " ", "*", "b", "*">>,
                            <<TextTok(<<"a", " ">>),
                              Inline("em", <<TextTok(<<"b">>)>>)>>)>>),
            Item(<<ItemText(<<"c">>, <<TextTok(<<"c">>)>>)>>)>>)

\* "- a\n- > q *r*": the second item holds a blockquote.  (The children of a
\* list item are text, list, code, blockquote ... tokens, never paragraphs:
\* the lexer makes paragraphs at the top level and in blockquotes only.)
ListQuote ==
  ListTok(<<"-", " ", "a", NL, "-", " ", ">", " ", "q", " ", "*", "r", "*">>,
          FALSE,
          <<Item(<<ItemText(<<"a">>, <<TextTok(<<"a">>)>>)>>),
            Item(<<QuoteTok>>)>>)

\* "- a<b>": a tight list item whose text token holds an inline html token
ListHtml ==
  ListTok(<<"-", " ", "a", "<", "b", ">">>, FALSE,
          <<Item(<<ItemText(<<"a", "<", "b", ">">>,
                            <<TextTok(<<"a">>), HtmlTok>>)>>)>>)

\* "- a\n- > <b>": an html token inside a blockquote inside a list item
ListDeep ==
  ListTok(<<"-", " ", "a", NL, "-", " ", ">", " ", "<", "b", ">">>, FALSE,
          <<Item(<<ItemText(<<"a">>, <<TextTok(<<"a">>)>>)>>),
            Item(<<QuoteHtml>>)>>)

\* a token of a kind the switch of isMarkedToken does not list
UnknownTok == Block("footnote", <<"^">>, <<>>)

\* "[l](u t)": a link with a title, then a codespan
ParaLink ==
  Block("paragraph", <<"[", "l", "]", "(", "u", " ", "t", ")", BACKTICK, "k",
                       BACKTICK>>,
        <<[BaseTok EXCEPT !.type = "link", !.tokens = <<TextTok(<<"l">>)>>,
                          !.href = <<"u">>, !.title = << <<"t">> >>],
          [BaseTok EXCEPT !.type = "codespan", !.text = <<"k">>]>>)

LinkTok(label, href, title) ==
  [BaseTok EXCEPT !.type = "link", !.text = label,
                  !.tokens = <<TextTok(label)>>, !.href = href, !.title = title]

\* an image: text is the alt text
ImageTok(alt, href, title) ==
  [BaseTok EXCEPT !.type = "image", !.text = alt, !.tokens = <<TextTok(alt)>>,
                  !.href = href, !.title = title]

\* "![\u00e9](v w)[m](n)": an image with a title, then a link without one
ParaImage ==
  Block("paragraph",
        <<"!", "[", EACUTE, "]", "(", "v", " ", "w", ")", "[", "m", "]", "(",
          "n", ")">>,
        <<ImageTok(<<EACUTE>>, <<"v">>, << <<"w">> >>),
          LinkTok(<<"m">>, <<"n">>, <<>>)>>)

\* "- [l](u)" and a codespan k: a tight list item whose text token holds a
\* link and a codespan
ListLink ==
  ListTok(<<"-", " ", "[", "l", "]", "(", "u", ")", BACKTICK, "k", BACKTICK>>,
          FALSE,
          <<Item(<<ItemText(<<"[", "l", "]", "(", "u", ")", BACKTICK, "k",
                              BACKTICK>>,
                            <<LinkTok(<<"l">>, <<"u">>, <<>>),
                              [BaseTok EXCEPT !.type = "codespan",
                                              !.text = <<"k">>]>>)>>)>>)

\* the top-level tokens the lexer may return next
TopTokens ==
  {ParaPlain, ParaEmFirst, ParaMixed, ParaLink, HeadingTok, Space2, Space3,
   SpaceWs, CodeLang, CodeNoLang, QuoteTok, QuoteHtml, HrTok, ListTight,
   ListQuote, ListHtml, ListDeep, HtmlTok, DefTok, ParaEscape, UnknownTok,
   ParaImage, ListLink}

\* the most top-level tokens of one input
MaxTokens == 3

\* what the block lexer never returns: two space tokens in a row (one space
\* token takes every blank line), two paragraphs in a row (they are one)
LexerAdjacent(prev, tok) ==
  IF prev = <<>> THEN TRUE
  ELSE LET last == prev[Len(prev)] IN
       /\ ~(last.type = "space" /\ tok.type = "space")
       /\ ~(last.type = "paragraph" /\ tok.type = "paragraph")

----------------------------------------------------------------------------
(* parseMarkdown(markdown)                                                  *)

NoResult == [kind |-> "none"]

\* the fixed diagnostic of the catch block
ReportMessage ==
  "Internal error: Please report this to https://github.com/mityu/lspoints-toolkit/issues with the following error messages."

\* a catch clause that wraps whatever it catches
rethrowWrapped(e, md) ==
  [name |-> "Error", message |-> e.message \o <<NL, ReportMessage, NL>> \o md]

\* the catch block: what parseMarkdown throws for the exception e
rethrow(e, md) ==
  IF e.name = "NotImplementedError"
  THEN [name |-> "Error", message |-> e.message \o <<NL, ReportMessage, NL>> \o md]
  ELSE e

Init ==
  /\ markdown = <<>>
  /\ tokens = <<>>
  /\ text = <<>>
  /\ attrs = <<>>
  /\ pc = "render"
  /\ caught = NoErr
  /\ result = NoResult
  /\ IdleEditor
  /\ IdleConvert

\* marked.lexer(markdown) throws: the catch block rethrows it
LexerThrows ==
  /\ pc = "render"
  /\ tokens = <<>>
  /\ pc' = "failed"
  /\ caught' = LexerError
  /\ result' = [kind |-> "throw", error |-> rethrow(LexerError, markdown)]
  /\ UNCHANGED <<markdown, tokens, text, attrs>>
  /\ UNCHANGED <<editorVars, cvVars>>

\* one round of the forEach of the top-level #renderList, for the next token
\* of the lexer: the token is rendered into the top-level Renderer
RenderToken(tok) ==
  /\ pc = "render"
  /\ Len(tokens) < MaxTokens
  /\ LexerAdjacent(tokens, tok)
  /\ LET after == dispatch([text |-> text, attrs |-> attrs, err |-> NoErr], tok) IN
     /\ after.err = NoErr
     /\ text' = after.text
     /\ attrs' = after.attrs
  /\ tokens' = Append(tokens, tok)
  /\ markdown' = markdown \o tok.raw
  /\ UNCHANGED <<pc, caught, result>>
  /\ UNCHANGED <<editorVars, cvVars>>

\* the same round when rendering the token throws: parseMarkdown catches the
\* exception and throws in its turn; nothing is returned
RenderThrows(tok) ==
  /\ pc = "render"
  /\ Len(tokens) < MaxTokens
  /\ LexerAdjacent(tokens, tok)
  /\ LET after == dispatch([text |-> text, attrs |-> attrs, err |-> NoErr], tok) IN
     /\ after.err # NoErr
     /\ caught' = after.err
     /\ result' = [kind |-> "throw",
                   error |-> rethrow(after.err, markdown \o tok.raw)]
  /\ tokens' = Append(tokens, tok)
  /\ markdown' = markdown \o tok.raw
  /\ pc' = "failed"
  /\ UNCHANGED <<text, attrs>>
  /\ UNCHANGED <<editorVars, cvVars>>

\* every token is rendered: parseMarkdown trims and returns
Return ==
  /\ pc = "render"
  /\ pc' = "done"
  /\ result' = [kind |-> "return", text |-> dropLastWhileEmpty(text),
                attrs |-> attrs]
  /\ UNCHANGED <<markdown, tokens, text, attrs, caught>>
  /\ UNCHANGED <<editorVars, cvVars>>

Next ==
  \/ LexerThrows
  \/ \E tok \in TopTokens : RenderToken(tok)
  \/ \E tok \in TopTokens : RenderThrows(tok)
  \/ Return

Spec == Init /\ [][Next]_vars

----------------------------------------------------------------------------
(* parseMarkdown on inputs that are lists: ordered lists of several sizes   *)
(* and task lists with every mix of checked, unchecked and plain items      *)

\* the most items of an ordered list
MaxItems == 10

\* the source of the i-th item of an ordered list written from 3 on: "3. a"
OrderedRaw(i) == toString(i + 2) \o <<".", " ", "a", NL>>

RECURSIVE OrderedSource(_)
OrderedSource(n) ==
  IF n = 0 THEN <<>> ELSE OrderedSource(n - 1) \o OrderedRaw(n)

\* "3. a\n4. a\n ...": an ordered list of n items; the numbers of the source
\* are not the positions of the items
OrderedList(n) ==
  ListTok(stripTrailingNewline(OrderedSource(n)), TRUE,
          [i \in 1..n |-> Item(<<ItemText(<<"a">>, <<TextTok(<<"a">>)>>)>>)])

OrderedSizes == {1, 2, MaxItems - 1, MaxItems}

\* a list item with the task state the lexer gives it: <<>> for no checkbox
TaskItem(checked, kids) == [Item(kids) EXCEPT !.checked = checked]

CheckedStates == {<<>>, <<TRUE>>, <<FALSE>>}

\* the source of a checkbox
TaskMark(checked) ==
  IF checked = <<>> THEN <<>>
  ELSE IF checked[1] THEN <<"[", "x", "]", " ">> ELSE <<"[", " ", "]", " ">>

\* "- [x] a\n- [ ] c\n  d\n  > q *r*": two items; the second has two lines of
\* text and a blockquote
TaskList(ordered, c1, c2) ==
  LET mark == IF ordered THEN <<"1", ".">> ELSE <<"-">> IN
  ListTok(mark \o <<" ">> \o TaskMark(c1) \o <<"a", NL>>
            \o mark \o <<" ">> \o TaskMark(c2)
            \o <<"c", NL, " ", " ", "d", NL, " ", " ">> \o QuoteTok.raw,
          ordered,
          <<TaskItem(c1, <<ItemText(<<"a">>, <<TextTok(<<"a">>)>>)>>),
            TaskItem(c2, <<ItemText(<<"c", NL, " ", " ", "d">>,
                                    <<TextTok(<<"c", NL, "d">>)>>),
                           QuoteTok>>)>>)

\* "\u00e9 *\u00e9*": a paragraph of two-byte characters
ParaAccent ==
  Block("paragraph", <<EACUTE, " ", "*", EACUTE, "*">>,
        <<TextTok(<<EACUTE, " ">>), Inline("em", <<TextTok(<<EACUTE>>)>>)>>)

\* "> \u00e9 *\u00e9*"
QuoteAccent == Block("blockquote", <<">", " ">> \o ParaAccent.raw, <<ParaAccent>>)

\* "- a\n  - b\n    - c\n  - d": unordered lists, three deep
ListNested ==
  LET leaf(c) == Item(<<ItemText(<<c>>, <<TextTok(<<c>>)>>)>>)
      third == ListTok(<<"-", " ", "c">>, FALSE, <<leaf("c")>>)
      second ==
        ListTok(<<"-", " ", "b", NL, " ", " ", "-", " ", "c", NL, "-", " ", "d">>,
                FALSE,
                <<Item(<<ItemText(<<"b">>, <<TextTok(<<"b">>)>>), third>>),
                  leaf("d")>>)
  IN ListTok(<<"-", " ", "a", NL, " ", " ", "-", " ", "b", NL, " ", " ", " ", " ",
               "-", " ", "c", NL, " ", " ", "-", " ", "d">>,
             FALSE,
             <<Item(<<ItemText(<<"a">>, <<TextTok(<<"a">>)>>), second>>)>>)

\* the top-level tokens of these inputs
ListTokens ==
  { OrderedList(n) : n \in OrderedSizes }
    \cup { TaskList(FALSE, c1, c2) : c1 \in CheckedStates, c2 \in CheckedStates }
    \cup { TaskList(TRUE, c1, c1) : c1 \in CheckedStates }
    \cup {ListDeep, ParaAccent, QuoteAccent, ListNested}

NextLists ==
  \/ \E tok \in ListTokens : RenderToken(tok)
  \/ \E tok \in ListTokens : RenderThrows(tok)
  \/ Return

SpecLists == Init /\ [][NextLists]_vars

----------------------------------------------------------------------------
(* parseMarkdown on inputs that are blockquotes, nested up to MaxDepth      *)

\* the deepest nesting of blockquotes
MaxDepth == 3

\* "q *r*": a paragraph with an em token
QuotedEm ==
  <<Block("paragraph", <<"q", " ", "*", "r", "*">>,
          <<TextTok(<<"q", " ">>), Inline("em", <<TextTok(<<"r">>)>>)>>)>>

\* a fenced block of two lines, lang ts
QuotedCode ==
  <<CodeTok(<<BACKTICK, BACKTICK, BACKTICK, "t", "s", NL, "x", NL, "y", NL,
              BACKTICK, BACKTICK, BACKTICK>>, << <<"t", "s">> >>,
            <<"x", NL, "y">>)>>

\* "a\n\n---\n**b**": a paragraph, an empty line, a rule and a paragraph
QuotedRule ==
  <<Block("paragraph", <<"a", NL>>, <<TextTok(<<"a">>)>>),
    SpaceTok(<<NL, NL>>),
    HrTok,
    Block("paragraph", <<"*", "*", "b", "*", "*">>,
          <<Inline("strong", <<TextTok(<<"b">>)>>)>>)>>

\* "a\n> q *r*": a paragraph and a blockquote, as the blockquote test nests them
QuotedMixed == <<Block("paragraph", <<"a", NL>>, <<TextTok(<<"a">>)>>), QuoteTok>>

QuotedContents == {QuotedEm, QuotedCode, QuotedRule, QuotedMixed}

RECURSIVE RawOf(_)
RawOf(toks) == IF toks = <<>> THEN <<>> ELSE Head(toks).raw \o RawOf(Tail(toks))

\* the content inside k blockquotes, one in the other
RECURSIVE Nest(_, _)
Nest(k, content) ==
  IF k = 0 THEN content
  ELSE <<Block("blockquote", repeat(">", k) \o <<" ">> \o RawOf(content),
               Nest(k - 1, content))>>

\* "- a\n\n  ---\n- b\n  - c\n\n    ---": a rule in a list item, and one in the
\* item of a nested list
ListRule ==
  ListTok(<<"-", " ", "a", NL, NL, " ", " ", "-", "-", "-", NL, "-", " ", "b", NL,
            " ", " ", "-", " ", "c", NL, NL, " ", " ", " ", " ", "-", "-", "-">>,
          FALSE,
          <<Item(<<ItemText(<<"a">>, <<TextTok(<<"a">>)>>), HrTok>>),
            Item(<<ItemText(<<"b">>, <<TextTok(<<"b">>)>>),
                   ListTok(<<"-", " ", "c", NL, NL, " ", " ", "-", "-", "-">>, FALSE,
                           <<Item(<<ItemText(<<"c">>, <<TextTok(<<"c">>)>>),
                                    HrTok>>)>>)>>)>>)

\* the top-level tokens of these inputs
QuoteTokens ==
  { Nest(k, c)[1] : k \in 1..MaxDepth, c \in QuotedContents }
    \cup {ParaPlain, QuoteHtml, HrTok, ListRule}

NextQuotes ==
  \/ \E tok \in QuoteTokens : RenderToken(tok)
  \/ \E tok \in QuoteTokens : RenderThrows(tok)
  \/ Return

SpecQuotes == Init /\ [][NextQuotes]_vars

----------------------------------------------------------------------------
(* highlight.ts: setHighlights(denops, highlights)                          *)
(*                                                                         *)
(* An optional field is <<>> when absent and <<v>> when it holds v.  A      *)
(* highlight group of the editor is [link, guifg, guibg]; a group without   *)
(* link and without attributes has no definition (":highlight clear").      *)

Hosts == {"vim", "nvim"}

GroupNames == {"TestHighlightGroup", "OtherGroup"}

NoGroup == [link |-> <<>>, guifg |-> <<>>, guibg |-> <<>>]

\* what ":highlight" commands issued before the calls may have left in a group
GroupsBefore ==
  { NoGroup,
    [link |-> <<>>, guifg |-> <<"#987654">>, guibg |-> <<"#456789">>],
    [link |-> <<>>, guifg |-> <<"#987654">>, guibg |-> <<>>],
    [link |-> <<"Error">>, guifg |-> <<>>, guibg |-> <<>>] }

\* type HighlightParam, as far as setHighlights distinguishes the values
HighlightParam(name, overwrite, linksto, guifg, guibg) ==
  [name |-> name, overwrite |-> overwrite, linksto |-> linksto,
   guifg |-> guifg, guibg |-> guibg]

\* the attributes a call may give: guifg, guibg or both
GivenAttrs ==
  { <<<<"#123456">>, <<>>>>, <<<<>>, <<"#fedcba">>>>,
    <<<<"#123456">>, <<"#fedcba">>>> }

HighlightParams ==
  { HighlightParam(n, o, <<"Todo">>, <<>>, <<>>) :
      n \in GroupNames, o \in {<<>>, <<FALSE>>, <<TRUE>>} }
    \cup { HighlightParam(n, o, <<>>, a[1], a[2]) :
             n \in GroupNames, o \in {<<>>, <<FALSE>>, <<TRUE>>},
             a \in GivenAttrs }

\* the most highlights of one call
MaxParams == 2

HighlightCalls ==
  UNION { [1..k -> HighlightParams] : k \in 0..MaxParams }

\* getOverriteAttr(hl): which of { default: true } and { force: true }
getOverriteAttr(hl) == IF hl.overwrite = <<TRUE>> THEN "force" ELSE "default"

\* hl_has_settings of the editors: the group has attributes or a link
hasSettings(group) == group # NoGroup

\* Vim, one entry of hlset(): ":highlight [default] link" and ":highlight
\* [default] {name} key=value ...".  A link leaves the attributes the group
\* holds in place; attributes given to a group take its link away and are
\* added to the attributes it holds.
hlsetOne(group, item) ==
  IF item.mode = "default" /\ hasSettings(group) THEN group
  ELSE IF item.linksto # <<>> THEN [group EXCEPT !.link = item.linksto]
  ELSE [link |-> <<>>,
        guifg |-> IF item.guifg # <<>> THEN item.guifg ELSE group.guifg,
        guibg |-> IF item.guibg # <<>> THEN item.guibg ELSE group.guibg]

\* Vim, hlset(list): the entries in order
RECURSIVE hlset(_, _)
hlset(groups, items) ==
  IF items = <<>> THEN groups
  ELSE LET item == Head(items) IN
       hlset([groups EXCEPT ![item.name] = hlsetOne(@, item)], Tail(items))

\* Neovim, nvim_set_hl(0, name, val): the group becomes val, unless val says
\* default and the group has settings
nvim_set_hl(groups, name, val) ==
  IF val.mode = "default" /\ hasSettings(groups[name]) THEN groups
  ELSE [groups EXCEPT ![name] =
          [link |-> val.link, guifg |-> val.fg, guibg |-> val.bg]]

\* setVimHighlights(denops, highlights)
setVimHighlights(groups, highlights) ==
  hlset(groups,
        [i \in 1..Len(highlights) |->
           [name |-> highlights[i].name, linksto |-> highlights[i].linksto,
            guifg |-> highlights[i].guifg, guibg |-> highlights[i].guibg,
            mode |-> getOverriteAttr(highlights[i])]])

\* setNvimHighlights(denops, highlights): the loop inside batch()
RECURSIVE setNvimHighlights(_, _)
setNvimHighlights(groups, highlights) ==
  IF highlights = <<>> THEN groups
  ELSE LET hl == Head(highlights)
           val == IF hl.linksto # <<>>
                  THEN [link |-> hl.linksto, fg |-> <<>>, bg |-> <<>>,
                        mode |-> getOverriteAttr(hl)]
                  ELSE [link |-> <<>>, fg |-> hl.guifg, bg |-> hl.guibg,
                        mode |-> getOverriteAttr(hl)]
       IN setNvimHighlights(nvim_set_hl(groups, hl.name, val), Tail(highlights))

InitHighlight ==
  /\ IdleMarkdown
  /\ IdleConvert
  /\ host \in Hosts
  /\ hlGroups \in [GroupNames -> GroupsBefore]
  /\ context = <<>> /\ propTypes = <<>> /\ props = {}
  /\ pending = <<>> /\ tpCall = <<>> /\ unhandled = {}
  /\ popups = <<>> /\ autocmds = {} /\ inflight = <<>> /\ invoked = <<>>

\* setHighlights(denops, highlights)
SetHighlights(highlights) ==
  /\ hlGroups' = IF host = "vim" THEN setVimHighlights(hlGroups, highlights)
                 ELSE setNvimHighlights(hlGroups, highlights)
  /\ UNCHANGED <<mdVars, cvVars, host, tpVars, popVars>>

NextHighlight == \E highlights \in HighlightCalls : SetHighlights(highlights)

SpecHighlight == InitHighlight /\ [][NextHighlight]_vars

----------------------------------------------------------------------------
(* textprop.ts: addTypes, addHighlights, addVirtualTexts, clearByTypes      *)
(*                                                                         *)
(* The cache denops.context[cacheKey] is <<>> while it is undefined and     *)
(* <<c>> once it is an object, c[name] being <<>> or <<config>>.  The       *)
(* editor holds prop types (Vim) or namespaces (Neovim) and the items       *)
(* placed in the buffer.  A command that is sent and not awaited waits in   *)
(* pending; the editor takes the commands of one plugin in the order sent.  *)

TypeNames == {"lspoints.a", "lspoints.b"}

\* type TextPropTypeConfig
TextPropTypeConfig(name, highlight, priority) ==
  [name |-> name, highlight |-> highlight, priority |-> priority]

TypeConfigs ==
  { TextPropTypeConfig(n, "Error", <<>>) : n \in TypeNames }
    \cup { TextPropTypeConfig("lspoints.a", "Todo", <<>>),
           TextPropTypeConfig("lspoints.a", "Error", <<10>>) }

\* the longest list of types drawn freely for one addTypes call
MaxTypes == 1

\* the most commands waiting unawaited
MaxPending == 1

\* calls that name one type twice, and two types at once
TypePairs ==
  { <<TextPropTypeConfig("lspoints.a", "Error", <<>>),
      TextPropTypeConfig("lspoints.a", "Todo", <<>>)>>,
    <<TextPropTypeConfig("lspoints.a", "Todo", <<>>),
      TextPropTypeConfig("lspoints.b", "Error", <<>>)>> }

AddTypesCalls == UNION { [1..k -> TypeConfigs] : k \in 0..MaxTypes } \cup TypePairs

\* the lists of items a call may give: none or one
ItemLists == {<<>>, <<"item">>}

ClearCalls == {<<>>, <<"lspoints.a">>, <<"lspoints.a", "lspoints.b">>}

NoTypes == [n \in TypeNames |-> <<>>]

Settled(op, arg, status, name, message) ==
  [op |-> op, arg |-> arg, status |-> status, name |-> name, message |-> message]

Resolved(op, arg) == Settled(op, arg, "ok", "", <<>>)

\* context[name], through the undefined cache
cached(ctx, name) == IF ctx = <<>> THEN <<>> ELSE ctx[1][name]

\* a variant that lets the latest config of a name replace the cached one
RECURSIVE keepLatest(_, _)
keepLatest(ctx, types) ==
  IF types = <<>> THEN ctx
  ELSE keepLatest([ctx EXCEPT ![Head(types).name] = <<Head(types)>>], Tail(types))

\* types.forEach: always keep existing prop types
RECURSIVE keepExisting(_, _)
keepExisting(ctx, types) ==
  IF types = <<>> THEN ctx
  ELSE LET type == Head(types) IN
       keepExisting(IF ctx[type.name] = <<>>
                    THEN [ctx EXCEPT ![type.name] = <<type>>] ELSE ctx,
                    Tail(types))

\* Vim: the loop over l:propTypes, prop_type_add where prop_type_get is empty
RECURSIVE propTypeAddMissing(_, _)
propTypeAddMissing(editorTypes, types) ==
  IF types = <<>> THEN editorTypes
  ELSE LET type == Head(types) IN
       propTypeAddMissing(
         IF editorTypes[type.name] = <<>>
         THEN [editorTypes EXCEPT ![type.name] =
                 <<[highlight |-> <<type.highlight>>, priority |-> type.priority]>>]
         ELSE editorTypes,
         Tail(types))

\* Neovim: nvim_create_namespace(name), which returns the namespace of that
\* name when there is one
nvim_create_namespace(editorTypes, name) ==
  IF editorTypes[name] = <<>>
  THEN [editorTypes EXCEPT ![name] = <<[highlight |-> <<>>, priority |-> <<>>]>>]
  ELSE editorTypes

RECURSIVE createNamespaces(_, _)
createNamespaces(editorTypes, names) ==
  IF names = <<>> THEN editorTypes
  ELSE createNamespaces(nvim_create_namespace(editorTypes, Head(names)),
                        Tail(names))

\* the editor runs one clear command: prop_remove({types, all}) or the loop
\* of nvim_buf_clear_namespace
runClear(editor, cmd) ==
  IF cmd.fails
  THEN [editor EXCEPT !.failed = TRUE]
  ELSE [editor EXCEPT
          !.props = { p \in @ : \A i \in 1..Len(cmd.types) : p.type # cmd.types[i] },
          !.types = IF cmd.host = "nvim" THEN createNamespaces(@, cmd.types) ELSE @]

\* the editor runs the commands that wait, oldest first
RECURSIVE runAll(_, _)
runAll(editor, cmds) ==
  IF cmds = <<>> THEN editor ELSE runAll(runClear(editor, Head(cmds)), Tail(cmds))

\* the editor as the next awaited command finds it: every command sent
\* before has run
Editor ==
  runAll([props |-> props, types |-> propTypes, failed |-> FALSE], pending)

Unhandled(editor) ==
  IF editor.failed THEN unhandled \cup {"clear failed"} ELSE unhandled

InitTextprop ==
  /\ IdleMarkdown
  /\ IdleConvert
  /\ host \in Hosts
  /\ hlGroups = <<>>
  /\ context = <<>>
  /\ propTypes \in
       { NoTypes,
         [NoTypes EXCEPT !["lspoints.a"] =
            <<[highlight |-> IF host = "vim" THEN <<"Todo">> ELSE <<>>,
               priority |-> <<>>]>>] }
  /\ props = {}
  /\ pending = <<>> /\ tpCall = Resolved("none", <<>>) /\ unhandled = {}
  /\ popups = <<>> /\ autocmds = {} /\ inflight = <<>> /\ invoked = <<>>

\* addTypes(denops, types)
AddTypes(types) ==
  /\ tpCall' = Resolved("addTypes", types)
  /\ IF types = <<>>
     THEN UNCHANGED <<context, propTypes, props, pending, unhandled>>
     ELSE /\ context' = <<keepExisting(IF context = <<>> THEN NoTypes
                                       ELSE context[1], types)>>
          /\ propTypes' =
               IF host = "vim" THEN propTypeAddMissing(Editor.types, types)
               ELSE createNamespaces(Editor.types,
                                     [i \in 1..Len(types) |-> types[i].name])
          /\ props' = Editor.props
          /\ pending' = <<>>
          /\ unhandled' = Unhandled(Editor)
  /\ UNCHANGED <<mdVars, cvVars, host, hlVars, popVars>>

\* the item addVimHighlights / addNvimHighlights / addVimVirtualTexts /
\* addNvimVirtualTexts places for the cached config: Vim shows the highlight
\* of the prop type, Neovim the highlight of the config
placed(kind, config, editorTypes) ==
  [kind |-> kind, type |-> config.name,
   highlight |-> IF host = "vim" THEN editorTypes[config.name][1].highlight
                 ELSE <<config.highlight>>]

\* the common body of addHighlights and addVirtualTexts
addItems(op, kind, type, items) ==
  IF items = <<>>
  THEN /\ tpCall' = Resolved(op, type)
       /\ UNCHANGED <<propTypes, props, pending, unhandled>>
  ELSE IF context = <<>>
  THEN /\ tpCall' = Settled(op, type, "throw", "AssertError",
                            <<"Expected a value that satisfies the condition in is.RecordOf">>)
       /\ UNCHANGED <<propTypes, props, pending, unhandled>>
  ELSE IF context[1][type] = <<>>
  THEN /\ tpCall' = Settled(op, type, "throw", "Error",
                            <<"Property type not registered: ", type>>)
       /\ UNCHANGED <<propTypes, props, pending, unhandled>>
  ELSE /\ tpCall' = Resolved(op, type)
       /\ props' = Editor.props
                     \cup {placed(kind, context[1][type][1], Editor.types)}
       /\ propTypes' = Editor.types
       /\ pending' = <<>>
       /\ unhandled' = Unhandled(Editor)

\* addHighlights(denops, bufnr, type, highlights)
AddHighlights(type, highlights) ==
  /\ addItems("addHighlights", "highlight", type, highlights)
  /\ UNCHANGED <<mdVars, cvVars, host, hlVars, context, popVars>>

\* addVirtualTexts(denops, bufnr, type, virtualTexts)
AddVirtualTexts(type, virtualTexts) ==
  /\ addItems("addVirtualTexts", "virtualtext", type, virtualTexts)
  /\ UNCHANGED <<mdVars, cvVars, host, hlVars, context, popVars>>

\* Vim: prop_remove fails for a type the editor does not have (E971)
unknownType(types) == \E i \in 1..Len(types) : propTypes[types[i]] = <<>>

\* clearByTypes(denops, bufnr, types); fails: the editor rejects the command
\* (the buffer of bufnr is gone)
ClearByTypes(types, fails) ==
  /\ IF types = <<>>
     THEN /\ tpCall' = Resolved("clearByTypes", types)
          /\ UNCHANGED <<props, pending>>
     ELSE IF host = "vim"
     THEN IF fails \/ unknownType(types)
          THEN /\ tpCall' = Settled("clearByTypes", types, "throw", "Error",
                                    <<"prop_remove failed">>)
               /\ UNCHANGED <<props, pending>>
          ELSE /\ tpCall' = Resolved("clearByTypes", types)
               /\ props' = runClear([props |-> props, types |-> propTypes,
                                     failed |-> FALSE],
                                    [types |-> types, fails |-> FALSE,
                                     host |-> "vim"]).props
               /\ UNCHANGED pending
     ELSE /\ Len(pending) < MaxPending
          /\ tpCall' = Resolved("clearByTypes", types)
          /\ pending' = Append(pending, [types |-> types, fails |-> fails,
                                         host |-> "nvim"])
          /\ UNCHANGED props
  /\ UNCHANGED <<mdVars, cvVars, host, hlVars, context, propTypes, unhandled, popVars>>

\* the editor runs the oldest command that waits; nobody awaits its promise
EditorRuns ==
  /\ pending # <<>>
  /\ LET after == runClear([props |-> props, types |-> propTypes,
                            failed |-> FALSE], Head(pending))
     IN /\ props' = after.props
        /\ propTypes' = after.types
        /\ unhandled' = Unhandled(after)
  /\ pending' = Tail(pending)
  /\ UNCHANGED <<mdVars, cvVars, host, hlVars, context, tpCall, popVars>>

NextTextprop ==
  \/ \E types \in AddTypesCalls : AddTypes(types)
  \/ \E type \in TypeNames, highlights \in ItemLists : AddHighlights(type, highlights)
  \/ \E type \in TypeNames, virtualTexts \in ItemLists :
       AddVirtualTexts(type, virtualTexts)
  \/ \E types \in ClearCalls, fails \in BOOLEAN : ClearByTypes(types, fails)
  \/ EditorRuns

SpecTextprop == InitTextprop /\ [][NextTextprop]_vars

----------------------------------------------------------------------------
(* popup.ts: openPreviewPopup and the PreviewPopup it returns               *)
(*                                                                         *)
(* popups[p] is the p-th popup opened from the one buffer the cursor is    *)
(* in: its window (none, open, closed), the moved option it was opened     *)
(* with, the handlers subscribed, and where its onClose lambda stands:     *)
(* "armed" (registered, not called), "running" with next the index of    *)
(* the handler the loop of #onClose is at, "done" or "rejected".  autocmds *)
(* holds the autocmds of the group lspoints.internal.previewpopup;         *)
(* inflight the denops#notify calls on their way to the plugin, oldest     *)
(* first.                                                                  *)

\* the most popups opened in one run
MaxPopups == 2

\* the most callbacks subscribed to one popup
MaxHandlers == 2

PopupIds == 1..MaxPopups

\* OpenOptions.moved: undefined or "any"
MovedOptions == {<<>>, <<"any">>}

\* the CloseCallbacks subscribed: one that resolves, one that rejects
CloseCallbacks == {"resolves", "rejects"}

Events == {"WinScrolled", "CursorMoved", "CursorMovedI", "InsertCharPre"}

NoPopup ==
  [st |-> "none", moved |-> <<>>, handlers |-> <<>>, onClose |-> "none", next |-> 1]

InitPopup ==
  /\ IdleMarkdown
  /\ IdleConvert
  /\ host \in Hosts
  /\ hlGroups = <<>>
  /\ context = <<>> /\ propTypes = <<>> /\ props = {}
  /\ pending = <<>> /\ tpCall = <<>> /\ unhandled = {}
  /\ popups = [p \in PopupIds |-> NoPopup]
  /\ autocmds = {}
  /\ inflight = <<>>
  /\ invoked = [p \in PopupIds |-> <<>>]

\* isOpened(): winbufnr(winId) !== -1
isOpened(p) == popups[p].st = "open"

\* helper.define(event, pat, cmd) of openVimPopup
vimAutocmds(p) ==
  { [event |-> "WinScrolled", pat |-> "<buffer>", cmd |-> "close", popup |-> p] }

\* the helper.define calls of openNvimFloating
nvimAutocmds(p, moved) ==
  (IF moved = <<"any">>
   THEN { [event |-> e, pat |-> "<buffer>", cmd |-> "close", popup |-> p] :
            e \in Events }
   ELSE {})
    \cup { [event |-> "WinClosed", pat |-> "winId", cmd |-> "notify", popup |-> p] }

\* openPreviewPopup(denops, options): PreviewPopupImpl.open
OpenPreviewPopup(p, moved) ==
  /\ popups[p].st = "none"
  /\ \A q \in 1..(p - 1) : popups[q].st # "none"
  /\ popups' = [popups EXCEPT ![p] =
                  [st |-> "open", moved |-> moved, handlers |-> <<>>,
                   onClose |-> "armed", next |-> 1]]
  /\ autocmds' = autocmds \cup
                   (IF host = "vim" THEN vimAutocmds(p) ELSE nvimAutocmds(p, moved))
  /\ UNCHANGED <<mdVars, cvVars, host, hlVars, tpVars, inflight, invoked>>

\* subscribeClose(callback)
SubscribeClose(p, callback) ==
  /\ popups[p].st # "none"
  /\ Len(popups[p].handlers) < MaxHandlers
  /\ popups' = [popups EXCEPT ![p].handlers = Append(@, callback)]
  /\ UNCHANGED <<mdVars, cvVars, host, hlVars, tpVars, autocmds, inflight, invoked>>

\* The editor closes the windows of ps.  Vim calls the popup's callback,
\* {-> l:denopsCallback}, which returns the string of onClose.notify() and
\* calls nothing.  Neovim runs the WinClosed autocmd of the window, once:
\* call denops#notify(...).
windowsClose(ps) ==
  /\ popups' = [p \in PopupIds |->
                  IF p \in ps THEN [popups[p] EXCEPT !.st = "closed"] ELSE popups[p]]
  /\ autocmds' = { a \in autocmds : ~(a.event = "WinClosed" /\ a.popup \in ps) }
  /\ inflight' =
       LET told == { p \in ps : \E a \in autocmds :
                                  a.event = "WinClosed" /\ a.popup = p }
           RECURSIVE inOrder(_)
           inOrder(p) == IF p > MaxPopups THEN <<>>
                         ELSE (IF p \in told THEN <<p>> ELSE <<>>) \o inOrder(p + 1)
       IN inflight \o inOrder(1)

\* close(): closeVimPopup is popup_close(winId), which does nothing for a
\* window that is gone; closeNvimFloating asks nvim_win_is_valid first
Close(p) ==
  /\ popups[p].st # "none"
  /\ IF isOpened(p) THEN windowsClose({p})
     ELSE UNCHANGED <<popups, autocmds, inflight>>
  /\ UNCHANGED <<mdVars, cvVars, host, hlVars, tpVars, invoked>>

\* the popups an event of the opening buffer closes: the autocmds of the
\* group for that event, and on Vim the popups created with moved: "any"
\* when the cursor moves
closedBy(event) ==
  { p \in PopupIds :
      /\ isOpened(p)
      /\ \/ \E a \in autocmds : a.event = event /\ a.cmd = "close" /\ a.popup = p
         \/ /\ host = "vim"
            /\ popups[p].moved = <<"any">>
            /\ event \in {"CursorMoved", "CursorMovedI"} }

\* the user moves the cursor, scrolls the window or types in the buffer the
\* popups were opened from
EditorEvent(event) ==
  /\ \E p \in PopupIds : isOpened(p)
  /\ windowsClose(closedBy(event))
  /\ UNCHANGED <<mdVars, cvVars, host, hlVars, tpVars, invoked>>

\* the lambda onClose of openVimPopup / openNvimFloating is called: it
\* disposes itself, removes the autocmds of the group for the buffer and
\* enters callbackOnClose, the loop of #onClose
OnClose ==
  /\ inflight # <<>>
  /\ LET p == Head(inflight) IN
       /\ popups[p].onClose = "armed"
       /\ popups' = [popups EXCEPT ![p].onClose =
                       IF popups[p].handlers = <<>> THEN "done" ELSE "running"]
  /\ inflight' = Tail(inflight)
  /\ autocmds' = { a \in autocmds : a.pat # "<buffer>" }
  /\ UNCHANGED <<mdVars, cvVars, host, hlVars, tpVars, invoked>>

\* one turn of the loop of #onClose: await handler(denops, winId); a
\* handler that rejects ends the loop
HandlerRuns(p) ==
  /\ popups[p].onClose = "running"
  /\ LET i == popups[p].next
         handler == popups[p].handlers[i]
     IN /\ invoked' = [invoked EXCEPT ![p] = Append(@, handler)]
        /\ popups' = [popups EXCEPT
                        ![p].next = i + 1,
                        ![p].onClose =
                          IF handler = "rejects" THEN "rejected"
                          ELSE IF i = Len(popups[p].handlers) THEN "done"
                          ELSE "running"]
  /\ UNCHANGED <<mdVars, cvVars, host, hlVars, tpVars, autocmds, inflight>>

NextPopup ==
  \/ \E p \in PopupIds, moved \in MovedOptions : OpenPreviewPopup(p, moved)
  \/ \E p \in PopupIds, callback \in CloseCallbacks : SubscribeClose(p, callback)
  \/ \E p \in PopupIds : Close(p)
  \/ \E event \in Events : EditorEvent(event)
  \/ OnClose
  \/ \E p \in PopupIds : HandlerRuns(p)

SpecPopup == InitPopup /\ [][NextPopup]_vars

----------------------------------------------------------------------------
(* to_vim_ranges.ts and to_vim_positions.ts: toVimRanges, toVimPositions    *)
(*                                                                         *)
(* The repository holds toVimRanges twice: the one with getInclusiveRange   *)
(* and an older one that computes the inclusive end in place.  Both are    *)
(* modelled; the second is toVimRanges_001 here.  buffer is <<>> when      *)
(* getbufinfo(bufnr) is empty, else <<lines>>, a line being a string.      *)

\* the largest LSP line number drawn
MaxLine == 2

\* the largest LSP character offset drawn
MaxChar == 3

Buffers ==
  { <<>>,
    << << <<"a", BULLET, "b">>, <<EACUTE>> >> >>,
    << << <<>> >> >> }

Positions == { Pos(l, c) : l \in 0..MaxLine, c \in 0..MaxChar }

Range(start, end) == [start |-> start, end |-> end]

\* start is not after end
Ranges ==
  { r \in { Range(p, q) : p \in Positions, q \in Positions } :
      r.start.line < r.end.line
        \/ (r.start.line = r.end.line /\ r.start.character <= r.end.character) }

\* the second range of the lists of two: a zero-width one, one over a line end
ProbeRanges == { Range(Pos(0, 1), Pos(0, 1)), Range(Pos(0, 2), Pos(1, 0)) }

RangeLists ==
  {<<>>} \cup { <<r>> : r \in Ranges }
    \cup { <<r, q>> : r \in Ranges, q \in ProbeRanges }
    \cup { <<q, r>> : r \in Ranges, q \in ProbeRanges }

\* the inclusive end both versions compute: const end = ...
inclusiveEnd(end) ==
  IF end.character = 0 THEN Pos(end.line - 1, -1)
  ELSE Pos(end.line, end.character - 1)

\* getInclusiveRange(src)
getInclusiveRange(src) ==
  LET isZeroWidth == src.start.line = src.end.line
                       /\ src.start.character = src.end.character
  IN IF isZeroWidth
     THEN Range(inclusiveEnd(src.end), inclusiveEnd(src.end))
     ELSE Range(src.start, inclusiveEnd(src.end))

\* ranges.reduce(...): acc.push(start, end) of getInclusiveRange(r)
RECURSIVE reduceInclusive(_)
reduceInclusive(rs) ==
  IF rs = <<>> THEN <<>>
  ELSE <<getInclusiveRange(Head(rs)).start, getInclusiveRange(Head(rs)).end>>
         \o reduceInclusive(Tail(rs))

\* ranges.reduce(...) of the older version: acc.push(r.start, end)
RECURSIVE reduceEnd(_)
reduceEnd(rs) ==
  IF rs = <<>> THEN <<>>
  ELSE <<Head(rs).start, inclusiveEnd(Head(rs).end)>> \o reduceEnd(Tail(rs))

\* strcharpart(text, 0, len)
strcharpart(line, len) ==
  SubSeq(line, 1, IF len > Len(line) THEN Len(line) ELSE IF len < 0 THEN 0 ELSE len)

\* one round of the loop of LspointsToolkitToVimPositions_<suffix>
convertOne(lines, position) ==
  LET line_count == Len(lines)
      line == IF position.line + 1 < 1 THEN 1
              ELSE IF position.line + 1 > line_count THEN line_count
              ELSE position.line + 1
      len == IF position.character < 0
             THEN Len(lines[line]) - position.character + 1
             ELSE position.character
  IN Pos(line, strBytes(strcharpart(lines[line], len)) + 1)

\* toVimPositions(denops, bufnr, positions): what the editor function
\* returns, a:positions itself when the buffer does not exist
toVimPositions(buf, positions) ==
  IF buf = <<>> THEN positions
  ELSE [i \in 1..Len(positions) |-> convertOne(buf[1], positions[i])]

\* chunk(converted, 2).map(...)
chunkMap(converted) ==
  [i \in 1..(Len(converted) \div 2) |->
     Range(converted[2 * i - 1],
           Pos(converted[2 * i].line, converted[2 * i].character + 1))]

NoCall == [fn |-> "none", called |-> FALSE, sent |-> <<>>, converted |-> <<>>,
           result |-> <<>>]

\* what one call of toVimRanges leaves behind, positions being what its
\* reduce built; toVimPositions calls the editor unless positions is empty
Called(fn, positions) ==
  [fn |-> fn, called |-> positions # <<>>, sent |-> positions,
   converted |-> toVimPositions(buffer, positions),
   result |-> chunkMap(toVimPositions(buffer, positions))]

InitConvert ==
  /\ IdleMarkdown
  /\ IdleEditor
  /\ buffer \in Buffers
  /\ ranges \in RangeLists
  /\ cvCall = NoCall

\* toVimRanges(denops, bufnr, ranges), the version with getInclusiveRange
ToVimRanges ==
  /\ cvCall.fn = "none"
  /\ cvCall' = Called("toVimRanges", reduceInclusive(ranges))
  /\ UNCHANGED <<mdVars, editorVars, buffer, ranges>>

\* toVimRanges(denops, bufnr, ranges), the older version
ToVimRanges_001 ==
  /\ cvCall.fn = "none"
  /\ cvCall' = Called("toVimRanges_001", reduceEnd(ranges))
  /\ UNCHANGED <<mdVars, editorVars, buffer, ranges>>

NextConvert == ToVimRanges \/ ToVimRanges_001

SpecConvert == InitConvert /\ [][NextConvert]_vars

----------------------------------------------------------------------------
(* Renderer.#appendText on its own: one call on a buffer and a raw string   *)
(* drawn at the start.  text is the buffer, markdown the string given,      *)
(* result the range returned.                                               *)

\* the longest raw string drawn
MaxRaw == 3

RawChars == {"a", EACUTE, NL}

RECURSIVE Strings(_, _)
Strings(chars, n) ==
  IF n = 0 THEN {<<>>}
  ELSE Strings(chars, n - 1) \cup
       { Append(str, c) : str \in Strings(chars, n - 1), c \in chars }

\* strings of raw characters, and some that hold an entity
Raws ==
  Strings(RawChars, MaxRaw) \cup
  { pre \o e.from \o post :
      pre \in Strings(RawChars, 1), e \in Entities, post \in Strings(RawChars, 1) }

TextBuffers ==
  { <<>>, << <<>> >>, << <<"a">> >>, << <<EACUTE, "b">> >>,
    << <<"a">>, <<>> >>, << <<"b">>, <<"a", EACUTE>> >>,
    << <<>>, <<EACUTE>>, <<"b">> >> }

InitAppend ==
  /\ IdleEditor
  /\ IdleConvert
  /\ markdown \in Raws
  /\ text \in TextBuffers
  /\ tokens = <<>> /\ attrs = <<>>
  /\ pc = "idle"
  /\ caught = <<>> /\ result = <<>>

\* this.#appendText(markdown)
AppendText ==
  /\ pc = "idle"
  /\ LET r == appendText([text |-> text, attrs |-> attrs, err |-> NoErr], markdown) IN
       /\ text' = r.this.text
       /\ result' = <<r.range>>
  /\ pc' = "done"
  /\ UNCHANGED <<markdown, tokens, attrs, caught, editorVars, cvVars>>

NextAppend == AppendText

SpecAppend == InitAppend /\ [][NextAppend]_vars

----------------------------------------------------------------------------
(* Vocabulary of the properties                                             *)

Last(q) == q[Len(q)]

\* a forEach round of the top-level renderer has rendered a token of this kind
Stepped(type) ==
  /\ pc = "render"
  /\ pc' = "render"
  /\ Len(tokens') = Len(tokens) + 1
  /\ Last(tokens').type = type

\* the attributes the round has pushed
NewAttrs == SubSeq(attrs', Len(attrs) + 1, Len(attrs'))

HasRange(a) == a.type # "horizontalrule"

\* p is a position of the text: a line that exists, a column on it or right
\* after its last byte
ValidPos(lines, p) ==
  /\ 1 <= p.line
  /\ p.line <= Len(lines)
  /\ 1 <= p.character
  /\ p.character <= strBytes(lines[p.line]) + 1

PosLeq(p, q) ==
  p.line < q.line \/ (p.line = q.line /\ p.character <= q.character)

\* the attribute addresses text that is present
ValidAttr(lines, a) ==
  IF HasRange(a)
  THEN /\ ValidPos(lines, a.range.start)
       /\ ValidPos(lines, a.range.end)
       /\ a.range.start.line <= a.range.end.line
  ELSE 1 <= a.line /\ a.line <= Len(lines)

\* the characters of one line between two byte columns (<<>> when a column
\* falls inside a character)
BytesBetween(line, c1, c2) ==
  LET cut(c) == { j \in 0..Len(line) : strBytes(SubSeq(line, 1, j)) + 1 = c } IN
  IF cut(c1) = {} \/ cut(c2) = {} THEN <<>>
  ELSE SubSeq(line, (CHOOSE j \in cut(c1) : TRUE) + 1, CHOOSE j \in cut(c2) : TRUE)

UnsupportedTypes == {"html", "def", "escape"}

\* the token tree holds a token of one of the kinds, at any depth
RECURSIVE HoldsType(_, _)
HoldsType(tok, types) ==
  \/ tok.type \in types
  \/ \E i \in 1..Len(tok.tokens) : HoldsType(tok.tokens[i], types)
  \/ \E i \in 1..Len(tok.items) : HoldsType(tok.items[i], types)

\* the tokens of one of the kinds in the tree
RECURSIVE TokensOfType(_, _)
TokensOfType(tok, types) ==
  (IF tok.type \in types THEN {tok} ELSE {})
    \cup UNION { TokensOfType(tok.tokens[i], types) : i \in 1..Len(tok.tokens) }
    \cup UNION { TokensOfType(tok.items[i], types) : i \in 1..Len(tok.items) }

\* how many tokens of the kind the tree holds
RECURSIVE CountType(_, _)
RECURSIVE CountTypeIn(_, _)
CountTypeIn(toks, type) ==
  IF toks = <<>> THEN 0
  ELSE CountType(Head(toks), type) + CountTypeIn(Tail(toks), type)
CountType(tok, type) ==
  (IF tok.type = type THEN 1 ELSE 0)
    + CountTypeIn(tok.tokens, type) + CountTypeIn(tok.items, type)

CountAttrs(as, type) == Cardinality({ i \in 1..Len(as) : as[i].type = type })

----------------------------------------------------------------------------
(* C1: every attribute parseMarkdown returns addresses text of the returned *)
(* text: a range attribute has 1 <= start.line <= end.line <= number of     *)
(* lines and columns between 1 and the byte length of the line plus 1, a    *)
(* horizontalrule attribute has a line between 1 and the number of lines.   *)
C1_AttrsAddressText ==
  pc = "done" =>
    \A i \in 1..Len(result.attrs) : ValidAttr(result.text, result.attrs[i])

----------------------------------------------------------------------------
(* C2: an attribute produced inside a list item is reported on the output   *)
(* line of that item: for an item whose first line lands on line p, the     *)
(* attribute of sub-render line L is at line p + L - 1; for every item and  *)
(* for a parent buffer that already holds lines.                            *)

\* the lines the item of index k (from 1) takes in the parent
ItemLineCount(tok, k) ==
  LET sub == render(<<tok.items[k]>>) IN
  IF sub.text = <<>> THEN 1 ELSE Len(sub.text)

\* the output line of the first line of item k, in a parent that held n lines
RECURSIVE ItemFirstLine(_, _, _)
ItemFirstLine(n, tok, k) ==
  IF k = 1 THEN n + 1
  ELSE ItemFirstLine(n, tok, k - 1) + ItemLineCount(tok, k - 1)

\* how many attributes the items before item k produced
RECURSIVE AttrsBefore(_, _)
AttrsBefore(tok, k) ==
  IF k = 1 THEN 0
  ELSE AttrsBefore(tok, k - 1) + Len(render(<<tok.items[k - 1]>>).attrs)

C2_ItemAttrsFollowItem ==
  [][Stepped("list") =>
       LET tok == Last(tokens') IN
       \A k \in 1..Len(tok.items) :
         LET sub == render(<<tok.items[k]>>)
             p == ItemFirstLine(Len(text), tok, k)
         IN \A i \in 1..Len(sub.attrs) :
              LET got == NewAttrs[AttrsBefore(tok, k) + i] IN
              HasRange(got) =>
                /\ got.range.start.line = p + sub.attrs[i].range.start.line - 1
                /\ got.range.end.line = p + sub.attrs[i].range.end.line - 1]_vars

----------------------------------------------------------------------------
(* C3: a token tree that holds an html, def or escape token at any depth    *)
(* makes the render call fail as a whole: parseMarkdown throws and returns  *)
(* no text and no attrs.                                                    *)
C3_UnsupportedAlwaysFails ==
  (\E k \in 1..Len(tokens) : HoldsType(tokens[k], UnsupportedTypes)) =>
    pc = "failed" /\ result.kind = "throw"

----------------------------------------------------------------------------
(* C4: parseMarkdown fails in exactly two ways.  When the renderer, at any  *)
(* nesting depth, meets an unsupported token, the caller gets an Error      *)
(* whose message is the Not implemented yet text, the report-this           *)
(* diagnostic and the markdown input; any other failure of the lexer or of  *)
(* rendering reaches the caller as the error that was thrown, unchanged.    *)

\* the renderer visits a token of an unsupported kind: it descends into the
\* children of these kinds only
RECURSIVE Visits(_)
Visits(tok) ==
  \/ tok.type \in UnsupportedTypes
  \/ /\ tok.type \in {"heading", "paragraph", "strong", "em", "del", "link",
                      "blockquote", "list_item"}
     /\ \E i \in 1..Len(tok.tokens) : Visits(tok.tokens[i])
  \/ /\ tok.type = "list"
     /\ \E i \in 1..Len(tok.items) : Visits(tok.items[i])

C4_TwoFailureOutcomes ==
  /\ pc = "failed" <=> result.kind = "throw"
  /\ pc = "failed" =>
       IF tokens # <<>> /\ Visits(Last(tokens))
       THEN /\ result.error.name = "Error"
            /\ \E type \in UnsupportedTypes :
                 result.error.message =
                   <<"Not implemented yet: ", type, NL, ReportMessage, NL>>
                     \o markdown
       ELSE /\ result.error = caught
            /\ result.error =
                 (IF tokens = <<>> THEN LexerError
                  ELSE UnreachableError(Last(tokens).type))

\* an html token inside a blockquote inside a list item has failed the call
C4_Witness ==
  /\ pc = "failed"
  /\ Len(tokens) = 2
  /\ Last(tokens) = ListDeep
  /\ result.error.name = "Error"

----------------------------------------------------------------------------
(* C5: for an input of text, paragraph and space tokens only, attrs is      *)
(* empty and text is the lines of the paragraphs with the space token       *)
(* between two paragraphs rendered as blank lines, trailing blank lines     *)
(* removed.                                                                 *)

PlainInput ==
  \A k \in 1..Len(tokens) :
    \/ tokens[k].type = "space"
    \/ /\ tokens[k].type = "paragraph"
       /\ \A i \in 1..Len(tokens[k].tokens) : tokens[k].tokens[i].type = "text"

NewlinesOnly(raw) == \A i \in 1..Len(raw) : raw[i] = NL

\* the text of the text tokens of a paragraph, entities decoded
RECURSIVE ParagraphText(_)
ParagraphText(kids) ==
  IF kids = <<>> THEN <<>>
  ELSE unescape(Head(kids).text) \o ParagraphText(Tail(kids))

\* the lines of a plain input, a space token giving blanks(raw) blank lines
RECURSIVE PlainLines(_, _)
PlainLines(toks, collapse) ==
  IF toks = <<>> THEN <<>>
  ELSE LET tok == Head(toks)
           here == IF tok.type = "paragraph" THEN split(ParagraphText(tok.tokens))
                   ELSE IF collapse THEN << <<>> >>
                   ELSE [i \in 1..(Len(tok.raw) - 1) |-> <<>>]
       IN here \o PlainLines(Tail(toks), collapse)

----------------------------------------------------------------------------
(* C6: the text parseMarkdown returns never ends with a line that is empty  *)
(* or holds only whitespace; the trim removes lines from the end only and   *)
(* returns attrs unchanged.                                                 *)
C6_NoTrailingBlankLine ==
  pc = "done" =>
    /\ result.text = <<>> \/ ~IsBlankLine(Last(result.text))
    /\ Len(result.text) <= Len(text)
    /\ result.text = SubSeq(text, 1, Len(result.text))
    /\ \A i \in (Len(result.text) + 1)..Len(text) : IsBlankLine(text[i])
    /\ result.attrs = attrs

----------------------------------------------------------------------------
(* C7: a heading of depth d gives one output line, the marker (d times #    *)
(* and a space) followed by the rendered children, then a blank line, and   *)
(* exactly one title attribute of depth d from column 1 of that line to     *)
(* right after its last byte; the attributes of the children lie inside.    *)

Marker(d) == repeat("#", d) \o <<" ">>

C7_TitleCoversHeadingLine ==
  [][Stepped("heading") =>
       LET tok == Last(tokens')
           n == Len(text')
           titles == { i \in 1..Len(NewAttrs) :
                         NewAttrs[i].type = "title" /\ NewAttrs[i].depth = tok.depth }
       IN /\ n >= 2
          /\ text'[n] = <<>>
          /\ text'[n - 1] = Marker(tok.depth) \o render(tok.tokens).text[1]
          /\ Cardinality(titles) = 1
          /\ \A i \in titles :
               /\ NewAttrs[i].range.start = Pos(n - 1, 1)
               /\ NewAttrs[i].range.end = Pos(n - 1, strBytes(text'[n - 1]) + 1)
               /\ \A j \in 1..Len(NewAttrs) :
                    HasRange(NewAttrs[j]) =>
                      /\ PosLeq(NewAttrs[i].range.start, NewAttrs[j].range.start)
                      /\ PosLeq(NewAttrs[j].range.end, NewAttrs[i].range.end)]_vars

----------------------------------------------------------------------------
(* C8: the title attribute of a heading of depth d has depth d.  As stated, *)
(* its range starts at column 1 + the length of the marker; as amended, it  *)
(* starts where the marker begins, so that the range covers the marker.     *)

\* the title attribute the round has pushed for the heading
HeadingTitle == Last(NewAttrs)

\* C8 as stated
C8_TitleStartsAfterMarker ==
  [][Stepped("heading") =>
       /\ HeadingTitle.type = "title"
       /\ HeadingTitle.depth = Last(tokens').depth
       /\ HeadingTitle.range.start.character
            = 1 + Len(Marker(Last(tokens').depth))]_vars

\* C8 as amended: the range starts at the end of the buffer as it was before
\* the marker was appended, and the bytes from there are the marker
C8_TitleStartsAtMarker ==
  [][Stepped("heading") =>
       LET d == Last(tokens').depth
           start == HeadingTitle.range.start
       IN /\ HeadingTitle.type = "title"
          /\ HeadingTitle.depth = d
          /\ start = (IF text = <<>> THEN Pos(1, 1)
                      ELSE Pos(Len(text), strBytes(Last(text)) + 1))
          /\ ValidPos(text', start)
          /\ BytesBetween(text'[start.line], start.character,
                          start.character + d + 1) = Marker(d)
          /\ PosLeq(Pos(start.line, start.character + d + 1),
                    HeadingTitle.range.end)]_vars

\* a heading of depth 2 has been rendered below a paragraph
C8_Witness ==
  /\ pc = "render"
  /\ tokens = <<ParaPlain, HeadingTok>>
  /\ Last(attrs) = [type |-> "title", depth |-> 2,
                    range |-> [start |-> Pos(3, 1), end |-> Pos(3, 7)]]

----------------------------------------------------------------------------
(* C9: for every em, strong and del token at any depth the text holds the   *)
(* rendered inner text without markup delimiters, and one italic, bold or   *)
(* strike attribute is emitted whose range holds exactly the rendered       *)
(* children.                                                                *)

EmphasisTypes == {"em", "strong", "del"}

\* the rendered children of the emphasis tokens of the input, by attribute kind
InnerTexts(kind) ==
  UNION { { render(e.tokens).text[1] :
              e \in { t \in TokensOfType(tokens[k], EmphasisTypes) :
                        typetable(t.type) = kind } } :
          k \in 1..Len(tokens) }

C9_EmphasisIsRangeOverInnerText ==
  pc \in {"render", "done"} =>
    /\ \A type \in EmphasisTypes :
         CountAttrs(attrs, typetable(type))
           = CountTypeIn(tokens, type)
    /\ \A l \in 1..Len(text) : \A c \in 1..Len(text[l]) : text[l][c] \notin {"*", "~"}
    /\ \A i \in 1..Len(attrs) :
         attrs[i].type \in {"italic", "bold", "strike"} =>
           /\ ValidAttr(text, attrs[i])
           /\ attrs[i].range.start.line = attrs[i].range.end.line
           /\ BytesBetween(text[attrs[i].range.start.line],
                           attrs[i].range.start.character,
                           attrs[i].range.end.character)
                \in InnerTexts(attrs[i].type)

----------------------------------------------------------------------------
(* C10: a fenced code token gives exactly one fenced attribute, its lang    *)
(* the language tag of the token verbatim (empty when absent), its range    *)
(* from column 1 of the first body line to right after the last byte of the *)
(* last body line; the text holds the body lines only, followed by a blank  *)
(* line, so two blocks X and Y around one empty line give [X, "", Y].       *)
C10_FencedCoversBody ==
  [][Stepped("code") =>
       LET tok == Last(tokens')
           body == split(tok.text)
           m == Len(body)
           n == Len(text')
       IN /\ n >= m + 1
          /\ text'[n] = <<>>
          /\ SubSeq(text', n - m, n - 1) = body
          /\ Len(NewAttrs) = 1
          /\ NewAttrs[1].type = "fenced"
          /\ NewAttrs[1].lang = (IF tok.lang = <<>> THEN <<>> ELSE tok.lang[1])
          /\ NewAttrs[1].range.start = Pos(n - m, 1)
          /\ NewAttrs[1].range.end = Pos(n - 1, strBytes(body[m]) + 1)
          /\ (tokens' = <<CodeLang, Space2, CodeLang>> =>
                /\ dropLastWhileEmpty(text') = << <<"x">>, <<>>, <<"x">> >>
                /\ attrs'[1].range.start.line = 1
                /\ attrs'[2].range.start.line = 3)]_vars

----------------------------------------------------------------------------
(* C11: in an ordered list of N items the item of index i (from 0) is       *)
(* labelled i + 1 and a dot, whatever number the source wrote, and every    *)
(* label has the byte width digits(N) + 1, the number right-justified with  *)
(* spaces; for N = 10 the labels are " 1." to "10.".                        *)

\* the label the list of n items owes its item of index i
OwedLabel(n, i) ==
  LET num == toString(i + 1)
      width == Len(toString(n))
  IN [j \in 1..(width - Len(num)) |-> " "] \o num \o <<".">>

C11_OrderedLabels ==
  [][(Stepped("list") /\ Last(tokens').ordered) =>
       LET tok == Last(tokens')
           n == Len(tok.items)
       IN /\ \A i \in 0..(n - 1) :
               LET line == text'[ItemFirstLine(Len(text), tok, i + 1)]
                   w == Len(toString(n)) + 1
               IN /\ SubSeq(line, 1, w) = OwedLabel(n, i)
                  /\ strBytes(OwedLabel(n, i)) = w
          /\ n = 10 =>
               /\ SubSeq(text'[Len(text) + 1], 1, 3) = <<" ", "1", ".">>
               /\ SubSeq(text'[Len(text) + 10], 1, 3) = <<"1", "0", ".">>]_vars

\* an ordered list of ten items, written from 3 on, has been rendered
C11_Witness ==
  /\ pc = "render"
  /\ tokens = <<OrderedList(10)>>
  /\ text[1] = <<" ", "1", ".", " ", "a">>
  /\ text[10] = <<"1", "0", ".", " ", "a">>

----------------------------------------------------------------------------
(* C12: within one list the checkbox column has one width, 4 bytes if any   *)
(* item declares a checked or an unchecked state and 0 otherwise; every     *)
(* item's checkbox has that width, so the prefix of an item's first line    *)
(* has byte length label width + checkbox width + 1, which is also the      *)
(* indentation of its later lines and the column shift of its attributes.   *)

\* the width the checkbox column of the list owes
OwedCheckboxWidth(tok) ==
  IF \E k \in 1..Len(tok.items) : tok.items[k].checked # <<>> THEN 4 ELSE 0

\* the label width of the list
OwedLabelWidth(tok) ==
  IF tok.ordered THEN Len(toString(Len(tok.items))) + 1 ELSE strBytes(labelChar)

C12_SharedCheckboxColumn ==
  [][Stepped("list") =>
       LET tok == Last(tokens')
           w == OwedLabelWidth(tok) + OwedCheckboxWidth(tok) + 1
       IN \A k \in 1..Len(tok.items) :
            LET sub == render(<<tok.items[k]>>)
                p == ItemFirstLine(Len(text), tok, k)
            IN /\ strBytes(text'[p]) = w + strBytes(sub.text[1])
               /\ \A l \in 2..Len(sub.text) :
                    text'[p + l - 1] = [j \in 1..w |-> " "] \o sub.text[l]
               /\ \A i \in 1..Len(sub.attrs) :
                    LET got == NewAttrs[AttrsBefore(tok, k) + i] IN
                    /\ got.range.start.character
                         = sub.attrs[i].range.start.character + w
                    /\ got.range.end.character
                         = sub.attrs[i].range.end.character + w]_vars

----------------------------------------------------------------------------
(* C13: content rendered inside a blockquote relates to the same content    *)
(* rendered unwrapped: every line the blockquote contributes starts with    *)
(* "> ", every attribute's start and end columns are exactly 2 more, and    *)
(* every attribute's line is moved by the number of lines the parent held   *)
(* before the merge; for k nested blockquotes the prefix is "> " k times    *)
(* and the column shift is 2k.                                              *)

\* how many blockquotes, one directly in the other, the token is
RECURSIVE QuoteDepth(_)
QuoteDepth(tok) ==
  IF tok.type = "blockquote" /\ Len(tok.tokens) = 1
       /\ tok.tokens[1].type = "blockquote"
  THEN 1 + QuoteDepth(tok.tokens[1])
  ELSE IF tok.type = "blockquote" THEN 1 ELSE 0

\* the content below those blockquotes
RECURSIVE QuoteContent(_)
QuoteContent(tok) ==
  IF tok.type = "blockquote" /\ Len(tok.tokens) = 1
       /\ tok.tokens[1].type = "blockquote"
  THEN QuoteContent(tok.tokens[1])
  ELSE tok.tokens

\* "> " k times
RECURSIVE QuotePrefix(_)
QuotePrefix(k) == IF k = 0 THEN <<>> ELSE <<">", " ">> \o QuotePrefix(k - 1)

\* the lines without the blank lines at the end
RECURSIVE WithoutBlankEnd(_)
WithoutBlankEnd(lines) ==
  IF lines = <<>> THEN lines
  ELSE IF \A j \in 1..Len(Last(lines)) : Last(lines)[j] \in {" ", NL}
  THEN WithoutBlankEnd(SubSeq(lines, 1, Len(lines) - 1))
  ELSE lines

C13_QuoteShiftsByPrefix ==
  [][Stepped("blockquote") =>
       LET tok == Last(tokens')
           k == QuoteDepth(tok)
           plain == render(QuoteContent(tok))
           lines == WithoutBlankEnd(plain.text)
           n == Len(text)
       IN /\ Len(text') = n + Len(lines) + 1
          /\ \A l \in 1..Len(lines) :
               text'[n + l] = QuotePrefix(k) \o lines[l]
          /\ text'[Len(text')] = <<>>
          /\ Len(NewAttrs) = Len(plain.attrs)
          /\ \A i \in 1..Len(plain.attrs) :
               LET got == NewAttrs[i]
                   was == plain.attrs[i]
               IN /\ got.type = was.type
                  /\ IF HasRange(was)
                     THEN /\ got.range.start
                               = Pos(was.range.start.line + n,
                                     was.range.start.character + 2 * k)
                          /\ got.range.end
                               = Pos(was.range.end.line + n,
                                     was.range.end.character + 2 * k)
                     ELSE got.line = was.line + n]_vars

\* an em token inside two blockquotes has been rendered below a paragraph
C13_Witness ==
  /\ pc = "render"
  /\ tokens = <<ParaPlain, Nest(2, QuotedEm)[1]>>
  /\ text[4] = <<">", " ", ">", " ", "q", " ", "r">>
  /\ Last(attrs).range.start = Pos(4, 7)

----------------------------------------------------------------------------
(* C14: textAttrTypes holds no name twice, the tags a TextAttrItem can      *)
(* carry are exactly the declared names, and every attribute the renderer   *)
(* emits carries one of them with the one payload of that tag: fenced has   *)
(* range and lang, title range and depth, horizontalrule a line and no      *)
(* range, every other tag a range only.                                     *)
C14_AttrsAreTextAttrItems ==
  /\ \A i, j \in 1..Len(textAttrTypes) :
       i # j => textAttrTypes[i] # textAttrTypes[j]
  /\ TextAttrItemTypes = { textAttrTypes[i] : i \in 1..Len(textAttrTypes) }
  /\ \A i \in 1..Len(attrs) :
       /\ IsTextAttrItem(attrs[i])
       /\ attrs[i].type = "fenced" => DOMAIN attrs[i] = {"type", "range", "lang"}
       /\ attrs[i].type = "title" => DOMAIN attrs[i] = {"type", "range", "depth"}
       /\ attrs[i].type = "horizontalrule" => DOMAIN attrs[i] = {"type", "line"}
       /\ attrs[i].type \notin {"fenced", "title", "horizontalrule"} =>
            DOMAIN attrs[i] = {"type", "range"}

\* a fenced block, a heading with an em token and a rule have been rendered
C14_Witness ==
  /\ pc = "done"
  /\ tokens = <<CodeLang, HeadingTok, HrTok>>
  /\ { attrs[i].type : i \in 1..Len(attrs) }
       = {"fenced", "italic", "title", "horizontalrule"}

----------------------------------------------------------------------------
(* C15: setHighlights for a group with overwrite absent or false defines    *)
(* the group when it has no definition and leaves it unchanged when it has  *)
(* a definition or a link; with overwrite true it replaces the definition   *)
(* or link by the given one; for any sequence of calls, on both hosts.      *)

\* what the highlight asks the group to be
Given(hl) == [link |-> hl.linksto, guifg |-> hl.guifg, guibg |-> hl.guibg]

\* what the group looks like: a linked group shows its link
Appearance(group) ==
  IF group.link # <<>> THEN [NoGroup EXCEPT !.link = group.link] ELSE group

\* the call names no group twice
DistinctNames(highlights) ==
  \A i, j \in 1..Len(highlights) :
    i # j => highlights[i].name # highlights[j].name

C15_OverwriteFlag ==
  [][\A highlights \in HighlightCalls :
       (SetHighlights(highlights) /\ DistinctNames(highlights)) =>
         /\ \A i \in 1..Len(highlights) :
              LET hl == highlights[i]
                  before == hlGroups[hl.name]
                  after == hlGroups'[hl.name]
              IN IF hl.overwrite = <<TRUE>> \/ before = NoGroup
                 THEN Appearance(after) = Given(hl)
                 ELSE after = before
         /\ \A n \in GroupNames :
              (\A i \in 1..Len(highlights) : highlights[i].name # n) =>
                hlGroups'[n] = hlGroups[n]]_vars

----------------------------------------------------------------------------
(* C16: addHighlights and addVirtualTexts, called with a non-empty list and *)
(* a type that no earlier addTypes call registered, fail with the error     *)
(* "Property type not registered: <type>" and send nothing to the editor,   *)
(* whatever addTypes calls came before, none at all included; with an empty *)
(* list they succeed and do nothing, registered type or not; with a         *)
(* registered type they place the item under the config cached for it.      *)

Registered(type) == cached(context, type) # <<>>

NothingSent == UNCHANGED <<propTypes, props, pending>>

OwedAdd(kind, type, items) ==
  IF items = <<>>
  THEN tpCall'.status = "ok" /\ NothingSent
  ELSE IF ~Registered(type)
  THEN /\ tpCall'.status = "throw"
       /\ tpCall'.name = "Error"
       /\ tpCall'.message = <<"Property type not registered: ", type>>
       /\ NothingSent
  ELSE /\ tpCall'.status = "ok"
       /\ \E p \in props' :
            /\ p.kind = kind
            /\ p.type = cached(context, type)[1].name
            /\ host = "nvim" => p.highlight = <<cached(context, type)[1].highlight>>

C16_UnregisteredTypeError ==
  [][\A type \in TypeNames, items \in ItemLists :
       /\ AddHighlights(type, items) => OwedAdd("highlight", type, items)
       /\ AddVirtualTexts(type, items) => OwedAdd("virtualtext", type, items)]_vars

\* C17: addTypes keeps existing prop types: a call leaves the config cached
\* for a name that was registered before as it is, caches for a new name the
\* first config the call gives for it, leaves the editor's prop type of a
\* name that had one as it is, and changes nothing when its list is empty.
FirstGiven(types, name) ==
  IF \E i \in 1..Len(types) : types[i].name = name
  THEN <<types[CHOOSE i \in 1..Len(types) :
                 /\ types[i].name = name
                 /\ \A j \in 1..(i - 1) : types[j].name # name]>>
  ELSE <<>>

C17_KeepsExistingTypes ==
  [][(tpCall'.op = "addTypes" /\ AddTypes(tpCall'.arg)) =>
       /\ tpCall'.arg = <<>> => UNCHANGED <<context, propTypes, props, pending>>
       /\ tpCall'.arg # <<>> =>
            \A name \in TypeNames :
              /\ cached(context', name) =
                   IF Registered(name) THEN cached(context, name)
                   ELSE FirstGiven(tpCall'.arg, name)
              /\ propTypes[name] # <<>> => propTypes'[name] = propTypes[name]]_vars

\* a call of addTypes has just given a registered name another highlight or
\* priority, and the editor has a prop type of that name
C17_Witness ==
  /\ tpCall.op = "addTypes"
  /\ Len(tpCall.arg) = 1
  /\ cached(context, tpCall.arg[1].name) # <<tpCall.arg[1]>>
  /\ propTypes[tpCall.arg[1].name] # <<>>

\* C18: when clearByTypes resolves, no item of the given types is left in
\* the buffer on either host; a step of the editor never removes an item
\* after the call has resolved; and a clear command that fails makes the
\* call reject.
C18_ClearIsAwaited ==
  [][/\ \A types \in ClearCalls, fails \in BOOLEAN :
          ClearByTypes(types, fails) =>
            /\ tpCall'.status = "ok" =>
                 \A p \in props' : \A i \in 1..Len(types) : p.type # types[i]
            /\ (fails /\ types # <<>>) => tpCall'.status = "throw"
     /\ EditorRuns => (props' = props /\ unhandled' = unhandled)]_vars

----------------------------------------------------------------------------
(* C19: for a preview popup, whatever subscribeClose calls, close() calls   *)
(* and closes by the editor happen: when the popup closes the plugin is     *)
(* told; when its onClose ends, every callback subscribed has been invoked  *)
(* once, in the order subscribed, each after the one before; close() on a   *)
(* popup that is closed changes nothing; isOpened() is true from the open   *)
(* to the close and false after it.                                         *)

Told(p) == \E i \in 1..Len(inflight) : inflight[i] = p

OnCloseEnded(st) == st \in {"done", "rejected"}

C19_CloseCallbacks ==
  [][\A p \in PopupIds :
       /\ (isOpened(p) /\ popups'[p].st = "closed") =>
            \E i \in 1..Len(inflight') : inflight'[i] = p
       /\ (~OnCloseEnded(popups[p].onClose) /\ OnCloseEnded(popups'[p].onClose)) =>
            invoked'[p] = popups'[p].handlers
       /\ Len(invoked'[p]) <= Len(popups'[p].handlers)
       /\ invoked'[p] = SubSeq(popups'[p].handlers, 1, Len(invoked'[p]))
       /\ (Close(p) /\ ~isOpened(p)) => UNCHANGED <<popups, autocmds, inflight, invoked>>
       /\ \A moved \in MovedOptions :
            OpenPreviewPopup(p, moved) => popups'[p].st = "open"
       /\ popups[p].st = "closed" => popups'[p].st = "closed"]_vars

\* C20: a popup opened with moved undefined is closed by close() alone, on
\* both hosts: no cursor move and no scroll closes it; a popup opened with
\* moved "any" is, as long as it is open, among the popups a cursor move
\* closes.
C20_MovedOption ==
  [][\A p \in PopupIds :
       /\ (isOpened(p) /\ popups[p].moved = <<>> /\ popups'[p].st = "closed") =>
            Close(p)
       /\ (popups'[p].st = "open" /\ popups'[p].moved = <<"any">>) =>
            (p \in closedBy("CursorMoved"))']_vars

----------------------------------------------------------------------------
(* C21: toVimRanges returns one range per input range, in input order, the  *)
(* i-th from the i-th input alone, and calls the editor for no empty input. *)
(* The positions sent for a range are its start and its last included      *)
(* position (end.character - 1, or the end of the line before when         *)
(* end.character is 0); the returned end is the converted last position    *)
(* plus one column.  For a zero-width range both positions sent are the     *)
(* last included position, so the returned start is not after the returned  *)
(* end.                                                                     *)

LastIncluded(r) ==
  IF r.end.character = 0 THEN Pos(r.end.line - 1, -1)
  ELSE Pos(r.end.line, r.end.character - 1)

IsZeroWidth(r) == r.start = r.end

C21_RangesConverted ==
  cvCall.fn # "none" =>
    /\ Len(cvCall.result) = Len(ranges)
    /\ Len(cvCall.sent) = 2 * Len(ranges)
    /\ ranges = <<>> => ~cvCall.called
    /\ \A i \in 1..Len(ranges) :
         /\ cvCall.sent[2 * i] = LastIncluded(ranges[i])
         /\ cvCall.sent[2 * i - 1] =
              IF IsZeroWidth(ranges[i]) THEN LastIncluded(ranges[i])
              ELSE ranges[i].start
         /\ cvCall.result[i].start = cvCall.converted[2 * i - 1]
         /\ cvCall.result[i].end =
              Pos(cvCall.converted[2 * i].line, cvCall.converted[2 * i].character + 1)
         /\ IsZeroWidth(ranges[i]) =>
              PosLeq(cvCall.result[i].start, cvCall.result[i].end)

----------------------------------------------------------------------------
(* C22: an hr token pushes one blank line and emits one horizontalrule      *)
(* attribute whose line is the number of buffer lines after the push minus  *)
(* one; a blockquote or a list that merges a sub-render moves that line     *)
(* with the lines of the sub-render, so that it still is the index of the   *)
(* line the hr pushed: sub-render index i lands on index n + i for a        *)
(* blockquote put after n lines, on index p - 1 + i for a list item whose   *)
(* first line is line p.                                                    *)
C22_RuleLineFollowsNesting ==
  [][/\ Stepped("hr") =>
          /\ text' = Append(text, <<>>)
          /\ NewAttrs = <<[type |-> "horizontalrule", line |-> Len(text') - 1]>>
     /\ Stepped("blockquote") =>
          LET sub == render(Last(tokens').tokens) IN
          \A i \in 1..Len(sub.attrs) :
            ~HasRange(sub.attrs[i]) =>
              NewAttrs[i].line = Len(text) + sub.attrs[i].line
     /\ Stepped("list") =>
          \A k \in 1..Len(Last(tokens').items) :
            LET sub == render(<<Last(tokens').items[k]>>) IN
            \A i \in 1..Len(sub.attrs) :
              ~HasRange(sub.attrs[i]) =>
                NewAttrs[AttrsBefore(Last(tokens'), k) + i].line =
                  ItemFirstLine(Len(text), Last(tokens'), k) - 1 + sub.attrs[i].line]_vars

----------------------------------------------------------------------------
(* C23: appendText of a string that holds k newlines once its entities are  *)
(* replaced, on a buffer of n >= 1 lines, leaves n + k lines: the first     *)
(* n - 1 as they were, the n-th followed by the first segment, then the     *)
(* other k segments; it returns the range from the end of the buffer before *)
(* to the end of the buffer after.  On an empty buffer it leaves k + 1      *)
(* lines and the range starts at line 1, column 1.                          *)

Newlines(str) == Cardinality({ i \in 1..Len(str) : str[i] = NL })

\* the lines of a buffer, joined by newlines
RECURSIVE JoinLines(_)
JoinLines(lines) ==
  IF lines = <<>> THEN <<>>
  ELSE IF Len(lines) = 1 THEN lines[1]
  ELSE lines[1] \o <<NL>> \o JoinLines(Tail(lines))

EofOf(lines) ==
  Pos(Len(lines), (IF lines = <<>> THEN 0 ELSE strBytes(Last(lines))) + 1)

\* the buffer and the range after an append of str that counts k newlines
Appended(str, k) ==
  /\ result' = <<[start |-> IF text = <<>> THEN Pos(1, 1) ELSE EofOf(text),
                  end |-> EofOf(text')]>>
  /\ IF text = <<>>
     THEN /\ Len(text') = k + 1
          /\ JoinLines(text') = str
     ELSE /\ Len(text') = Len(text) + k
          /\ \A i \in 1..(Len(text) - 1) : text'[i] = text[i]
          /\ JoinLines(text') = JoinLines(text) \o str

C23_AppendSegments ==
  [][AppendText => Appended(unescape(markdown), Newlines(unescape(markdown)))]_vars

\* an append of two newlines and a two-byte character to a buffer of two lines
C23_Witness ==
  /\ pc = "done"
  /\ markdown = <<NL, EACUTE, NL>>
  /\ text = << <<"b">>, <<"a", EACUTE>>, <<EACUTE>>, <<>> >>
  /\ result = <<[start |-> Pos(2, 4), end |-> Pos(4, 1)]>>

\* the statement with k counted in the string as given
C23_NewlinesOfRaw ==
  [][AppendText =>
       /\ Appended(unescape(markdown), Newlines(markdown))]_vars

----------------------------------------------------------------------------
(* C24: columns count bytes.  An emphasis after text of two-byte characters *)
(* starts at 1 + the bytes before it on its line and ends at 1 + the bytes  *)
(* up to its end.  A blockquote and a list shift the columns of the ranges  *)
(* they merge by the byte length of the prefix written to the line of the   *)
(* range: 2 for a blockquote, label and one space for an unordered list     *)
(* without checkboxes; the later lines of a list item are indented by the   *)
(* byte length of the prefix of its first line.                             *)

\* what was written to the line before the line of the sub-render
WrittenPrefix(line, subline) == SubSeq(line, 1, Len(line) - Len(subline))

\* a range of the sub-render, placed on lines from first on, is shifted by
\* the bytes of the prefix of its line
ShiftedByPrefix(got, was, sub, first) ==
  /\ got.range.start.character =
       was.range.start.character
         + strBytes(WrittenPrefix(text'[first + was.range.start.line - 1],
                                  sub.text[was.range.start.line]))
  /\ got.range.end.character =
       was.range.end.character
         + strBytes(WrittenPrefix(text'[first + was.range.end.line - 1],
                                  sub.text[was.range.end.line]))

C24_ColumnsCountBytes ==
  [][/\ (Stepped("paragraph") /\ Last(tokens') = ParaAccent) =>
          LET base == IF text = <<>> THEN <<>> ELSE Last(text) IN
          /\ Len(NewAttrs) = 1
          /\ NewAttrs[1].range.start.character
               = 1 + strBytes(base \o <<EACUTE, " ">>)
          /\ NewAttrs[1].range.end.character
               = 1 + strBytes(base \o <<EACUTE, " ", EACUTE>>)
     /\ Stepped("blockquote") =>
          LET sub == render(Last(tokens').tokens) IN
          \A i \in 1..Len(sub.attrs) :
            HasRange(sub.attrs[i]) =>
              /\ ShiftedByPrefix(NewAttrs[i], sub.attrs[i], sub, Len(text) + 1)
              /\ strBytes(WrittenPrefix(
                    text'[Len(text) + sub.attrs[i].range.start.line],
                    sub.text[sub.attrs[i].range.start.line])) = 2
     /\ Stepped("list") =>
          \A k \in 1..Len(Last(tokens').items) :
            LET tok == Last(tokens')
                sub == render(<<tok.items[k]>>)
                p == ItemFirstLine(Len(text), tok, k)
                prefix == WrittenPrefix(text'[p], sub.text[1])
            IN /\ \A i \in 1..Len(sub.attrs) :
                    HasRange(sub.attrs[i]) =>
                      ShiftedByPrefix(NewAttrs[AttrsBefore(tok, k) + i],
                                      sub.attrs[i], sub, p)
               /\ \A l \in 2..Len(sub.text) :
                    WrittenPrefix(text'[p + l - 1], sub.text[l])
                      = [j \in 1..strBytes(prefix) |-> " "]
               /\ (~tok.ordered /\ \A j \in 1..Len(tok.items) :
                                     tok.items[j].checked = <<>>) =>
                    /\ prefix = labelChar \o <<" ">>
                    /\ strBytes(prefix) = strBytes(labelChar) + 1]_vars

----------------------------------------------------------------------------
(* C25: the first line of a list item is its label, its checkbox and one    *)
(* space before the first line of the item; every later line of the item,   *)
(* the lines of a nested list among them, is indented by label width +      *)
(* checkbox width + 1 spaces.  Unordered lists without checkboxes nested    *)
(* k deep are indented by k times the width of label and space.  Items and  *)
(* the lines of an item keep their order.                                   *)

Spaces(n) == [j \in 1..n |-> " "]

\* the label the list owes its k-th item
LabelOwed(tok, k) ==
  IF tok.ordered THEN OwedLabel(Len(tok.items), k - 1) ELSE labelChar

\* the checkbox the list owes its k-th item: blank in the shared column for an
\* item without a state
CheckboxOwed(tok, k) ==
  IF tok.items[k].checked = <<>> THEN Spaces(OwedCheckboxWidth(tok))
  ELSE IF tok.items[k].checked[1] THEN <<" ", "[", "x", "]">>
  ELSE <<" ", "[", " ", "]">>

\* an unordered list without checkboxes whose items are one line of text,
\* some followed by a list of the same kind
RECURSIVE IsPlainNest(_)
IsPlainNest(tok) ==
  /\ tok.type = "list"
  /\ ~tok.ordered
  /\ \A k \in 1..Len(tok.items) :
       LET kids == tok.items[k].tokens IN
       /\ tok.items[k].checked = <<>>
       /\ Len(kids) \in {1, 2}
       /\ kids[1].type = "text"
       /\ Newlines(kids[1].text) = 0
       /\ Len(kids) = 2 => IsPlainNest(kids[2])

\* the lines such a list owes at depth d, items from position k on
RECURSIVE NestLines(_, _, _)
NestLines(tok, d, k) ==
  IF k > Len(tok.items) THEN <<>>
  ELSE LET kids == tok.items[k].tokens IN
       <<Spaces(d * (strBytes(labelChar) + 1)) \o labelChar \o <<" ">>
           \o kids[1].text>>
         \o (IF Len(kids) = 2 THEN NestLines(kids[2], d + 1, 1) ELSE <<>>)
         \o NestLines(tok, d, k + 1)

C25_ItemLinesIndented ==
  [][Stepped("list") =>
       LET tok == Last(tokens') IN
       /\ \A k \in 1..Len(tok.items) :
            LET sub == render(<<tok.items[k]>>)
                p == ItemFirstLine(Len(text), tok, k)
                prefix == LabelOwed(tok, k) \o CheckboxOwed(tok, k) \o <<" ">>
            IN /\ text'[p] = prefix \o sub.text[1]
               /\ \A l \in 2..Len(sub.text) :
                    text'[p + l - 1] = Spaces(strBytes(prefix)) \o sub.text[l]
       /\ Len(text') = ItemFirstLine(Len(text), tok, Len(tok.items) + 1) - 1
       /\ IsPlainNest(tok) =>
            SubSeq(text', Len(text) + 1, Len(text')) = NestLines(tok, 0, 1)]_vars

----------------------------------------------------------------------------
(* C26: a link token writes "[", its label, "](", its href, a space and its *)
(* title when it has one, and ")"; an image token the same after "![" with  *)
(* its alt text as label.  Each gives one link attribute over the label,    *)
(* then one url attribute over the href, then, with a title, one title      *)
(* attribute of depth 0 over the title: url.start is 2 bytes after          *)
(* link.end, title.start 1 byte after url.end.                              *)

\* a forEach round has rendered one more token
RenderedOne == pc = "render" /\ pc' = "render" /\ Len(tokens') = Len(tokens) + 1

\* the label of a link or image as it is written
LabelOf(t) ==
  IF t.type = "link" THEN render(t.tokens).text[1] ELSE unescape(t.text)

HasTitle(t) == t.title # <<>> /\ t.title[1] # <<>>

\* the attribute is the title of a link
IsLinkTitle(a) == a.type = "title" /\ a.depth = 0

\* the range lies on one line and holds exactly str
Over(a, str) ==
  /\ a.range.start.line = a.range.end.line
  /\ a.range.end.character = a.range.start.character + strBytes(str)
  /\ a.range.start.line \in 1..Len(text')
  /\ str # <<>> =>
       BytesBetween(text'[a.range.start.line], a.range.start.character,
                    a.range.end.character) = str

\* the line of the attribute holds str right before byte column c
Before(a, c, str) ==
  BytesBetween(text'[a.range.start.line], c - strBytes(str), c) = str

\* the attributes from the i-th on are those of the link or image t
WrittenAs(new, i, t) ==
  /\ Over(new[i], LabelOf(t))
  /\ Before(new[i], new[i].range.start.character,
            IF t.type = "link" THEN <<"[">> ELSE <<"!", "[">>)
  /\ i + 1 <= Len(new)
  /\ new[i + 1].type = "url"
  /\ Over(new[i + 1], unescape(t.href))
  /\ new[i + 1].range.start.line = new[i].range.end.line
  /\ new[i + 1].range.start.character = new[i].range.end.character + 2
  /\ Before(new[i + 1], new[i + 1].range.start.character, <<"]", "(">>)
  /\ IF HasTitle(t)
     THEN /\ i + 2 <= Len(new)
          /\ IsLinkTitle(new[i + 2])
          /\ Over(new[i + 2], unescape(t.title[1]))
          /\ new[i + 2].range.start.line = new[i + 1].range.end.line
          /\ new[i + 2].range.start.character = new[i + 1].range.end.character + 1
          /\ Before(new[i + 2], new[i + 2].range.start.character, <<" ">>)
          /\ Before(new[i + 2], new[i + 2].range.end.character + 1, <<")">>)
     ELSE /\ (i + 2 <= Len(new) => ~IsLinkTitle(new[i + 2]))
          /\ Before(new[i + 1], new[i + 1].range.end.character + 1, <<")">>)

LinkTypes == {"link", "image"}

C26_LinkWritten ==
  [][RenderedOne =>
       LET tok == Last(tokens')
           new == NewAttrs
       IN /\ CountAttrs(new, "link")
               = CountType(tok, "link") + CountType(tok, "image")
          /\ CountAttrs(new, "url") = CountAttrs(new, "link")
          /\ Cardinality({ i \in 1..Len(new) : IsLinkTitle(new[i]) })
               <= CountAttrs(new, "link")
          /\ \A i \in 1..Len(new) :
               new[i].type = "link" =>
                 \E t \in TokensOfType(tok, LinkTypes) : WrittenAs(new, i, t)
          /\ \A t \in TokensOfType(tok, LinkTypes) :
               \E i \in 1..Len(new) : new[i].type = "link" /\ WrittenAs(new, i, t)]_vars

----------------------------------------------------------------------------
(* C27: a codespan token gives three attributes, codespanDelimiter,         *)
(* codespan, codespanDelimiter, one after the other on the line: each       *)
(* delimiter is the one byte of a backtick kept in the text, the first ends *)
(* where the codespan starts, the codespan ends where the second starts.    *)

C27_CodespanDelimited ==
  [][RenderedOne =>
       LET tok == Last(tokens')
           new == NewAttrs
       IN /\ CountAttrs(new, "codespan") = CountType(tok, "codespan")
          /\ CountAttrs(new, "codespanDelimiter") = 2 * CountType(tok, "codespan")
          /\ \A i \in 1..Len(new) :
               new[i].type = "codespan" =>
                 /\ 1 < i
                 /\ i < Len(new)
                 /\ new[i - 1].type = "codespanDelimiter"
                 /\ new[i + 1].type = "codespanDelimiter"
                 /\ Over(new[i - 1], <<BACKTICK>>)
                 /\ Over(new[i + 1], <<BACKTICK>>)
                 /\ new[i - 1].range.end = new[i].range.start
                 /\ new[i].range.end = new[i + 1].range.start
                 /\ \E t \in TokensOfType(tok, {"codespan"}) :
                      Over(new[i], unescape(t.text))]_vars

----------------------------------------------------------------------------
(* C28: the text of a block token that follows another block token starts   *)
(* at column 1 of a line that holds no text of the block before, with or    *)
(* without a space token between them: the block finds the buffer ending    *)
(* with an empty line and starts there, or it leaves the last line as it    *)
(* was and starts on a line of its own.                                     *)

BlockTypes == {"heading", "paragraph", "code", "blockquote", "list", "table"}

C28_BlocksOnOwnLines ==
  [][(/\ RenderedOne
      /\ Last(tokens').type \in BlockTypes
      /\ \E k \in 1..Len(tokens) : tokens[k].type \in BlockTypes) =>
       \/ Last(text) = <<>>
       \/ /\ Len(text') > Len(text)
          /\ text'[Len(text)] = Last(text)
          /\ Last(tokens').type \in {"blockquote", "list"}]_vars

----------------------------------------------------------------------------
(* C29: on Neovim, with two popups opened with moved "any" from the same    *)
(* buffer, whatever happens after one of them has closed leaves the other,  *)
(* as long as it is open, among the popups a cursor move closes, and leaves *)
(* the autocmd that tells the plugin of its closing, so that its close      *)
(* callbacks are invoked.                                                   *)

\* the plugin is told when the window of the popup closes
TellsClose(q) ==
  \E a \in autocmds : a.event = "WinClosed" /\ a.cmd = "notify" /\ a.popup = q

C29_OtherPopupStaysGuarded ==
  [][host = "nvim" =>
       \A p, q \in PopupIds :
         (/\ p # q
          /\ popups[p].st = "closed"
          /\ popups[p].moved = <<"any">>
          /\ popups[q].moved = <<"any">>
          /\ q \in closedBy("CursorMoved")
          /\ popups'[q].st = "open") =>
           /\ (q \in closedBy("CursorMoved"))'
           /\ TellsClose(q)']_vars

====
